---- MODULE Spec2Model ----
(***************************************************************************)
(* Model of the chemfiles PDB and POSCAR codecs: the frame index built by  *)
(* forward(), the reader read_next() with its per-record handlers, and the *)
(* writer write_next() with its TER and CONECT serial arithmetic.          *)
(*                                                                         *)
(* A file is a sequence of lines; an offset is the number of lines before  *)
(* it.  A line is a record of the fixed-width columns the codec looks at.  *)
(* Atom indexes are 0-based as in the code; Seq positions are index + 1.   *)
(* Serials and residue ids are kept inside the decimal range of hybrid36,  *)
(* where decode_hybrid36 and encode_hybrid36 map a column to its number.   *)
(***************************************************************************)
EXTENDS Integers, Sequences, FiniteSets, TLC

VARIABLES
    kind,       \* which object the run is about: "pdb", "poscar", "write", "writeseq",
                \* "poscar_read", "poscar_write", "capi", "topology"
    file,       \* the lines of the file
    fmt,        \* the indexing / random access format object: position and eof flag
    index,      \* offsets returned by forward() so far
    indexDone,  \* forward() has returned nullopt
    seq,        \* a second format object on the same file, reading sequentially
    seqLog,     \* one entry per sequential read_next: frame, start and end position
    step,       \* result of the last seek + read_next
    wframe,     \* the frame handed to write_next
    wst,        \* the state of the writing format object
    topology,   \* a Topology: atoms, bonds and the memo of the derived angles
    traj        \* a trajectory handle of the C API and the outcome of closing it

vars == <<kind, file, fmt, index, indexDone, seq, seqLog, step, wframe, wst,
          topology, traj>>

\* the value of topology and of traj in a run that is about neither
NoTopology == [atoms |-> <<>>]
NoTrajectory == [open |-> FALSE]

----------------------------------------------------------------------------
(* Bounds *)

MaxLines == 4
MaxAtoms == 2
MaxBonds == 1
MaxSeeks == 2
MaxBlocks == 2
MaxBlockAtoms == 2
MaxChainAtoms == 5
MaxWrites == 1
MaxModels == 2
MaxSecAtoms == 3
MaxOffsetLines == 3
MaxJunkLines == 3
MaxGoodLines == 2
EncSlack == 3
MaxTopAtoms == 3
MaxBondCalls == 3
MaxCalls == 3
MaxResLines == 4
MaxStarAtoms == 5
MaxConectSerial == 5
MaxLeakAtoms == 2

----------------------------------------------------------------------------
(* Lines *)

NoKey == <<" ", 0, " ">>

BlankLine ==
    [rec |-> "", serial |-> 0, name |-> "", type |-> "", resname |-> "",
     chain |-> " ", resid |-> 0, icode |-> " ", resok |-> FALSE, len78 |-> FALSE,
     conect |-> <<>>, start |-> NoKey, end |-> NoKey, label |-> "",
     \* the line is the last of the file and has no line terminator
     nonl |-> FALSE,
     \* the numeric field of the line that is malformed, if any: "cell", "xyz",
     \* "serial", "head" (first serial of a CONECT), "partner" (its second serial)
     bad |-> "",
     \* the x, y, z columns of an ATOM / HETATM line, the a, b, c columns of CRYST1
     xyz |-> <<0, 0, 0>>, cell |-> <<0, 0, 0>>,
     \* not in the file: the atom indexes a written CONECT row stands for
     for_atoms |-> <<>>]

Rec(r) == [BlankLine EXCEPT !.rec = r]

AtomLine(r, serial, name, type, resname, chain, resid) ==
    [BlankLine EXCEPT !.rec = r, !.serial = serial, !.name = name, !.type = type,
        !.resname = resname, !.chain = chain, !.resid = resid, !.resok = TRUE,
        !.len78 = TRUE]

TerLine(serial, resname, chain, resid) ==
    [BlankLine EXCEPT !.rec = "TER", !.serial = serial, !.resname = resname,
        !.chain = chain, !.resid = resid, !.resok = TRUE]

ConectLine(head, partners) ==
    [BlankLine EXCEPT !.rec = "CONECT", !.serial = head, !.conect = partners]

ModelLine(n) == [BlankLine EXCEPT !.rec = "MODEL", !.serial = n]

\* a HELIX / SHEET / TURN line: the residue keys of its start and end, and the label
\* the record gives ("" for a helix class without label)
SecLine(r, start, end, label) ==
    [BlankLine EXCEPT !.rec = r, !.start = start, !.end = end, !.label = label]

----------------------------------------------------------------------------
(* File layer: a line reader with tellpos / seekpos / eof *)

OpenFile == [pos |-> 0, eof |-> FALSE]

\* readline(): "" once eof is set; reading at the end of the data sets eof, and so
\* does reading a last line that has no line terminator
ReadLine(f, h) ==
    IF h.eof THEN [h |-> h, line |-> BlankLine]
    ELSE IF h.pos >= Len(f) THEN [h |-> [h EXCEPT !.eof = TRUE], line |-> BlankLine]
    ELSE [h |-> [h EXCEPT !.pos = h.pos + 1, !.eof = f[h.pos + 1].nonl],
          line |-> f[h.pos + 1]]

SeekPos(h, p) == [pos |-> p, eof |-> FALSE]

----------------------------------------------------------------------------
(* get_record *)

IgnoredNames == {"REMARK", "MASTER", "SEQRES", "ANISOU"}

\* a mutant of get_record: the END prefix is tested before ENDMDL
get_record_EndFirst(line) ==
    IF line.rec \in {"END", "ENDMDL"} THEN "END"
    ELSE IF line.rec \in {"CRYST1", "ATOM", "HETATM", "CONECT", "MODEL", "TER",
                          "HELIX", "SHEET", "TURN", "HEADER", "TITLE"} THEN line.rec
    ELSE IF line.rec \in IgnoredNames \/ line.rec = "" THEN "IGNORED_"
    ELSE "UNKNOWN_"

get_record(line) ==
    IF line.rec = "ENDMDL" THEN "ENDMDL"
    ELSE IF line.rec = "END" THEN "END"
    ELSE IF line.rec \in {"CRYST1", "ATOM", "HETATM", "CONECT", "MODEL", "TER",
                          "HELIX", "SHEET", "TURN", "HEADER", "TITLE"} THEN line.rec
    ELSE IF line.rec \in IgnoredNames THEN "IGNORED_"
    ELSE IF line.rec = "" THEN "IGNORED_"
    ELSE "UNKNOWN_"

\* a mutant of StartsWithEND: only the END record itself
StartsWithEND_OnlyEnd(line) == line.rec = "END"

\* line.substr(0, 3) == "END"
StartsWithEND(line) == line.rec \in {"END", "ENDMDL"}

----------------------------------------------------------------------------
(* PDBFormat::forward and POSCARFormat::forward *)

None == [some |-> FALSE, pos |-> 0]
Some(p) == [some |-> TRUE, pos |-> p]

\* the `while (!file_.eof())` loop of PDBFormat::forward and the code after it
RECURSIVE ForwardLoop(_, _, _)
ForwardLoop(f, h, position) ==
    IF h.eof
    THEN [h |-> h, ret |-> IF position = 0 THEN Some(position) ELSE None]
    ELSE LET r == ReadLine(f, h)
             isEndmdl == r.line.rec = "ENDMDL"
             save == r.h.pos
             next == ReadLine(f, r.h)
             \* after the look-ahead the position is restored
             h1 == IF isEndmdl THEN SeekPos(next.h, save) ELSE r.h
         IN  IF isEndmdl /\ StartsWithEND(next.line)
             THEN ForwardLoop(f, h1, position)
             ELSE IF StartsWithEND(r.line)
                  THEN [h |-> h1, ret |-> Some(position)]
                  ELSE ForwardLoop(f, h1, position)

\* a mutant of PDBForward: forward() without the look-ahead after ENDMDL
RECURSIVE ForwardLoopNoPeek(_, _, _)
ForwardLoopNoPeek(f, h, position) ==
    IF h.eof
    THEN [h |-> h, ret |-> IF position = 0 THEN Some(position) ELSE None]
    ELSE LET r == ReadLine(f, h)
         IN  IF StartsWithEND(r.line)
             THEN [h |-> r.h, ret |-> Some(position)]
             ELSE ForwardLoopNoPeek(f, r.h, position)

PDBForward_NoPeek(f, h) == ForwardLoopNoPeek(f, h, h.pos)

PDBForward(f, h) == ForwardLoop(f, h, h.pos)

POSCARForward(f, h) ==
    IF h.pos = 0
    THEN [h |-> ReadLine(f, h).h, ret |-> Some(h.pos)]
    ELSE [h |-> h, ret |-> None]

----------------------------------------------------------------------------
(* Frame, residues *)

\* positions: one Vector3D per atom; cell: the lengths a, b, c of the unit cell
EmptyFrame ==
    [atoms |-> <<>>, residues |-> <<>>, bonds |-> {}, positions |-> <<>>,
     cell |-> <<0, 0, 0>>]

\* Bond(i, j): the smaller index first
Bond(i, j) == IF i < j THEN <<i, j>> ELSE <<j, i>>

NoSecinfo == [some |-> FALSE, end |-> NoKey, label |-> ""]

\* order of the characters used as chain ids and insertion codes
CharOrder == <<" ", "A", "B", "C", "X">>
CharRank(c) == CHOOSE i \in 1..Len(CharOrder) : CharOrder[i] = c

\* operator< of std::tuple<char, int64_t, char>, the key of residues_
KeyLess(a, b) ==
    \/ CharRank(a[1]) < CharRank(b[1])
    \/ a[1] = b[1] /\ a[2] < b[2]
    \/ a[1] = b[1] /\ a[2] = b[2] /\ CharRank(a[3]) < CharRank(b[3])

RECURSIVE SortedKeys(_)
SortedKeys(S) ==
    IF S = {} THEN <<>>
    ELSE LET m == CHOOSE k \in S : \A o \in S \ {k} : KeyLess(k, o)
         IN  <<m>> \o SortedKeys(S \ {m})

\* the state of a PDBFormat while reading, with the frame being filled
NewReader(h, models) ==
    [h |-> h, frame |-> EmptyFrame, residues_ |-> <<>>, atom_offsets_ |-> <<>>,
     secinfo_ |-> <<>>, current_secinfo_ |-> NoSecinfo, models_ |-> models,
     got_end |-> FALSE, warnings |-> 0, error |-> FALSE, ub |-> FALSE,
     \* not in the program: atom_offsets_ as each read_CONECT call found it
     at_conect |-> <<>>]

\* a mutant of chain_ended: residues_ is not cleared
chain_ended_NoClear(st) ==
    LET keys == SortedKeys(DOMAIN st.residues_)
        added == [i \in 1..Len(keys) |-> st.residues_[keys[i]]]
    IN  [st EXCEPT !.frame.residues = @ \o added]

\* PDBFormat::chain_ended: residues_ go to the frame in key order, then are cleared
chain_ended(st) ==
    LET keys == SortedKeys(DOMAIN st.residues_)
        added == [i \in 1..Len(keys) |-> st.residues_[keys[i]]]
    IN  [st EXCEPT !.frame.residues = @ \o added, !.residues_ = <<>>]

\* PDBFormat::read_ATOM
read_ATOM(st, line, is_hetatm) ==
    LET noserial == line.bad = "serial" \/ line.serial <= 0
        offs == IF st.atom_offsets_ # <<>> THEN st.atom_offsets_
                ELSE IF noserial THEN <<0>> ELSE <<line.serial - 1>>
        w1 == IF st.atom_offsets_ = <<>> /\ noserial THEN 1 ELSE 0
        atom == [name |-> line.name,
                 type |-> IF line.len78 THEN line.type ELSE line.name]
        atom_id == Len(st.frame.atoms)
        key == <<line.chain, line.resid, line.icode>>
        st1 == [st EXCEPT !.atom_offsets_ = offs, !.warnings = @ + w1,
                          !.frame.atoms = Append(@, atom),
                          !.frame.positions = Append(@, line.xyz)]
    IN  IF line.bad = "xyz"
        THEN [st EXCEPT !.atom_offsets_ = offs, !.warnings = @ + w1, !.error = TRUE]
        ELSE IF ~line.resok THEN st1
        ELSE IF key \in DOMAIN st1.residues_
        THEN [st1 EXCEPT !.residues_[key].atoms = Append(@, atom_id)]
        ELSE LET inside == st1.current_secinfo_.some
                 cur1 == IF inside /\ st1.current_secinfo_.end = key
                         THEN NoSecinfo ELSE st1.current_secinfo_
                 starts == key \in DOMAIN st1.secinfo_
                 cur2 == IF starts
                         THEN [some |-> TRUE, end |-> st1.secinfo_[key].end,
                               label |-> st1.secinfo_[key].label]
                         ELSE cur1
                 sec == IF starts THEN st1.secinfo_[key].label
                        ELSE IF inside THEN st1.current_secinfo_.label ELSE ""
                 residue == [name |-> line.resname, id |-> line.resid,
                             atoms |-> <<atom_id>>, icode |-> line.icode,
                             std |-> ~is_hetatm, chainid |-> line.chain,
                             comp |-> "", sec |-> sec]
             IN  [st1 EXCEPT !.residues_ = (key :> residue) @@ @,
                             !.current_secinfo_ = cur2]

\* std::lower_bound(atom_offsets_.begin(), atom_offsets_.end(), v) - begin()
LowerBound(offsets, v) ==
    Cardinality({i \in 1..Len(offsets) : offsets[i] < v})

\* the read_index lambda of read_CONECT: serial -> atom index (may be out of range)
read_index(st, serial) ==
    serial - LowerBound(st.atom_offsets_, serial) - st.atom_offsets_[1]

\* the add_bond lambda of read_CONECT
conect_add_bond(st, i, j) ==
    IF i < 0 \/ j < 0 \/ i >= Len(st.frame.atoms) \/ j >= Len(st.frame.atoms)
    THEN [st EXCEPT !.warnings = @ + 1]
    ELSE IF i = j THEN [st EXCEPT !.error = TRUE]
    ELSE [st EXCEPT !.frame.bonds = @ \cup {Bond(i, j)}]

RECURSIVE conect_partners(_, _, _, _, _)
conect_partners(st, i, partners, k, bad) ==
    IF k > Len(partners) \/ k > 4 \/ st.error THEN st
    ELSE IF k = 1 /\ bad = "partner" THEN [st EXCEPT !.error = TRUE]
    ELSE conect_partners(conect_add_bond(st, i, read_index(st, partners[k])),
                         i, partners, k + 1, bad)

\* PDBFormat::read_CONECT; atom_offsets_.front() of an empty table is undefined,
\* and a serial is decoded before the table is used
read_CONECT(st, line) ==
    LET s == [st EXCEPT !.at_conect =
                Append(@, [pos |-> st.h.pos, offsets |-> st.atom_offsets_])]
    IN  IF line.bad = "head" THEN [s EXCEPT !.error = TRUE]
        ELSE IF st.atom_offsets_ = <<>> THEN [s EXCEPT !.ub = TRUE]
        ELSE conect_partners(s, read_index(s, line.serial), line.conect, 1, line.bad)

\* a mutant of read_CRYST1: a malformed cell is skipped
read_CRYST1_Lenient(st, line) == st

\* PDBFormat::read_CRYST1: the cell lengths go to the frame
read_CRYST1(st, line) ==
    IF line.bad = "cell" THEN [st EXCEPT !.error = TRUE]
    ELSE [st EXCEPT !.frame.cell = line.cell]

\* case Record::TER of read_next
read_TER(st, line) ==
    chain_ended(IF line.serial # 0
                THEN [st EXCEPT !.atom_offsets_ = Append(@, line.serial)]
                ELSE st)

\* PDBFormat::read_HELIX / read_secondary: std::map::insert keeps an existing entry
read_secondary(st, line) ==
    IF line.start[1] # line.end[1] THEN [st EXCEPT !.warnings = @ + 1]
    ELSE IF line.label = "" \/ line.start \in DOMAIN st.secinfo_ THEN st
    ELSE [st EXCEPT !.secinfo_ =
             (line.start :> [end |-> line.end, label |-> line.label]) @@ @]

----------------------------------------------------------------------------
(* PDBFormat::link_standard_residue_bonds *)

\* PDBConnectivity::find: the intra-residue links of the standard residues
ResidueTable(name) ==
    IF name = "GLY" THEN <<<<"N", "CA">>, <<"CA", "C">>, <<"C", "O">>>>
    ELSE IF name = "DA" THEN <<<<"P", "O5'">>, <<"O5'", "C5'">>, <<"C3'", "O3'">>>>
    ELSE <<>>

IsStandardName(name) == name \in {"GLY", "DA"}

\* atom_name_to_index: the last atom of the residue with each name
NameToIndex(frame, residue) ==
    LET names == {frame.atoms[residue.atoms[k] + 1].name : k \in 1..Len(residue.atoms)}
    IN  [n \in names |->
            LET k == CHOOSE k \in 1..Len(residue.atoms) :
                        /\ frame.atoms[residue.atoms[k] + 1].name = n
                        /\ \A m \in (k + 1)..Len(residue.atoms) :
                              frame.atoms[residue.atoms[m] + 1].name # n
            IN  residue.atoms[k]]

\* frame.add_bond: a bond between an atom and itself is an error
frame_add_bond(st, i, j) ==
    IF i = j THEN [st EXCEPT !.error = TRUE]
    ELSE [st EXCEPT !.frame.bonds = @ \cup {Bond(i, j)}]

\* names whose absence is not reported: H*, P*, OP*, OXT
QuietName(n) == n \in {"P", "OXT", "H", "HO5'", "OP1", "OP2"}

RECURSIVE link_table(_, _, _, _)
link_table(st, table, idx, k) ==
    IF k > Len(table) THEN st
    ELSE LET a == table[k][1]
             b == table[k][2]
         IN  IF a \notin DOMAIN idx
             THEN link_table([st EXCEPT !.warnings = @ + IF QuietName(a) THEN 0 ELSE 1],
                             table, idx, k + 1)
             ELSE IF b \notin DOMAIN idx
             THEN link_table([st EXCEPT !.warnings = @ + IF QuietName(b) THEN 0 ELSE 1],
                             table, idx, k + 1)
             ELSE link_table(frame_add_bond(st, idx[a], idx[b]), table, idx, k + 1)

\* loop state: link_previous_peptide, link_previous_nucleic, previous_residue_id,
\* previous_carboxylic_id
RECURSIVE link_residues(_, _, _)
link_residues(st, lk, r) ==
    IF r > Len(st.frame.residues) THEN st
    ELSE LET residue == st.frame.residues[r]
             idx == NameToIndex(st.frame, residue)
             resid == residue.id
             hasN == "N" \in DOMAIN idx
             hasC == "C" \in DOMAIN idx
             hasO3 == "O3'" \in DOMAIN idx
             hasP == "P" \in DOMAIN idx
             pep == lk.pep /\ hasN /\ resid = lk.prev_id + 1
             st1 == IF pep THEN frame_add_bond(st, lk.prev_atom, idx["N"]) ELSE st
             lk1 == IF hasC
                    THEN [lk EXCEPT !.pep = TRUE, !.prev_atom = idx["C"], !.prev_id = resid]
                    ELSE IF pep THEN [lk EXCEPT !.pep = FALSE] ELSE lk
             nuc == lk1.nuc /\ hasP /\ resid = lk1.prev_id + 1
             \* three_prime_oxygen->second: the end iterator when O3' is absent
             st2 == IF ~nuc THEN st1
                    ELSE IF hasO3 THEN frame_add_bond(st1, lk1.prev_atom, idx["O3'"])
                    ELSE [st1 EXCEPT !.ub = TRUE]
             lk2 == IF hasO3
                    THEN [lk1 EXCEPT !.nuc = TRUE, !.prev_atom = idx["O3'"], !.prev_id = resid]
                    ELSE IF nuc THEN [lk1 EXCEPT !.nuc = FALSE] ELSE lk1
             \* atom_name_to_index["O5'"] inserts index 0 when the name is absent
             idx3 == IF "HO5'" \in DOMAIN idx /\ "O5'" \notin DOMAIN idx
                     THEN ("O5'" :> 0) @@ idx ELSE idx
             st3 == IF "HO5'" \in DOMAIN idx
                    THEN frame_add_bond(st2, idx3["HO5'"], idx3["O5'"])
                    ELSE st2
         IN  IF ~IsStandardName(residue.name)
             THEN link_residues(st, lk, r + 1)
             ELSE link_residues(link_table(st3, ResidueTable(residue.name), idx3, 1),
                                lk2, r + 1)

link_standard_residue_bonds(st) ==
    link_residues(st, [pep |-> FALSE, nuc |-> FALSE, prev_id |-> 0, prev_atom |-> 0], 1)

----------------------------------------------------------------------------
(* PDBFormat::read_next *)

\* the `while (!got_end && !file_.eof())` loop
RECURSIVE ReadLoop(_, _)
ReadLoop(f, st) ==
    IF st.got_end \/ st.h.eof \/ st.error \/ st.ub THEN st
    ELSE LET r == ReadLine(f, st.h)
             line == r.line
             record == get_record(line)
             s0 == [st EXCEPT !.h = r.h]
         IN  CASE record = "ATOM" -> ReadLoop(f, read_ATOM(s0, line, FALSE))
               [] record = "HETATM" -> ReadLoop(f, read_ATOM(s0, line, TRUE))
               [] record = "CONECT" -> ReadLoop(f, read_CONECT(s0, line))
               [] record = "CRYST1" -> ReadLoop(f, read_CRYST1(s0, line))
               [] record = "MODEL" -> ReadLoop(f, [s0 EXCEPT !.models_ = @ + 1])
               [] record = "ENDMDL" ->
                    IF ~s0.h.eof
                    THEN LET position == s0.h.pos
                             next == ReadLine(f, s0.h)
                             s1 == [s0 EXCEPT !.h = SeekPos(next.h, position)]
                         IN  IF get_record(next.line) = "END"
                             THEN ReadLoop(f, s1)
                             ELSE [s1 EXCEPT !.got_end = TRUE]
                    ELSE [s0 EXCEPT !.got_end = TRUE]
               [] record \in {"HELIX", "SHEET", "TURN"} ->
                    ReadLoop(f, read_secondary(s0, line))
               [] record = "TER" -> ReadLoop(f, read_TER(s0, line))
               [] record = "END" -> [s0 EXCEPT !.got_end = TRUE]
               [] record = "UNKNOWN_" ->
                    ReadLoop(f, IF ~s0.h.eof THEN [s0 EXCEPT !.warnings = @ + 1] ELSE s0)
               [] OTHER -> ReadLoop(f, s0)

\* read_next on a new Frame: fmt carries what the format object keeps between calls
read_next(f, fmtst) ==
    LET st0 == [NewReader(fmtst.h, fmtst.models_) EXCEPT
                    !.secinfo_ = fmtst.secinfo_,
                    !.current_secinfo_ = fmtst.current_secinfo_]
        st1 == ReadLoop(f, st0)
        st2 == IF st1.got_end THEN st1 ELSE [st1 EXCEPT !.warnings = @ + 1]
    IN  IF st1.error \/ st1.ub THEN st1
        ELSE link_standard_residue_bonds(chain_ended(st2))

\* a PDBFormat just opened on a file
NewFormat ==
    [h |-> OpenFile, models_ |-> 0, secinfo_ |-> <<>>, current_secinfo_ |-> NoSecinfo]

\* what the format object keeps after a read_next
AfterRead(st) ==
    [h |-> st.h, models_ |-> st.models_, secinfo_ |-> st.secinfo_,
     current_secinfo_ |-> st.current_secinfo_]

----------------------------------------------------------------------------
(* PDBFormat::write_next *)

\* the biggest numbers hybrid36 encodes in 4 and in 5 columns:
\* 10^w + 2 * 26 * 36^(w - 1) - 1
MAX_HYBRID36_W4_NUMBER == 2436111
MAX_HYBRID36_W5_NUMBER == 87440031

\* what stands for a column filled with asterisks
Asterisks == -1000000

\* encode_hydrid36(width, n) gives asterisks: n is too big for the width
encode_overflows(width, n) ==
    n > (IF width = 4 THEN MAX_HYBRID36_W4_NUMBER ELSE MAX_HYBRID36_W5_NUMBER)

\* a mutant of to_pdb_index: the serial is the 0-based value
to_pdb_index_ZeroBased(value, width) == value

\* to_pdb_index: encode_hybrid36(width, value + 1), as the number it prints
to_pdb_index(value, width) ==
    IF encode_overflows(width, value + 1) THEN Asterisks ELSE value + 1

\* to_pdb_index: the call emits its warning
to_pdb_index_warns(value, width) ==
    /\ encode_overflows(width, value + 1)
    /\ value = MAX_HYBRID36_W4_NUMBER \/ value = MAX_HYBRID36_W5_NUMBER

Warns(value, width) == IF to_pdb_index_warns(value, width) THEN 1 ELSE 0

NoResidue == [some |-> FALSE]
SomeResidue(r) == [some |-> TRUE, res |-> r]

\* frame.topology().residue_for_atom(i)
residue_for_atom(frame, i) ==
    LET R == {k \in 1..Len(frame.residues) :
                \E m \in 1..Len(frame.residues[k].atoms) : frame.residues[k].atoms[m] = i}
    IN  IF R = {} THEN NoResidue ELSE SomeResidue(frame.residues[CHOOSE k \in R : TRUE])

\* struct ResidueInformation with its default members
DefaultResidueInformation ==
    [atom_hetatm |-> "HETATM", resname |-> "XXX", resid |-> -1, chainid |-> "X",
     inscode |-> " ", comp_type |-> ""]

\* get_residue_strings: the strings of the row, and max_resid after the call
get_residue_strings(residue_opt, max_resid) ==
    IF ~residue_opt.some
    THEN [info |-> [DefaultResidueInformation EXCEPT !.resid = to_pdb_index(max_resid, 4)],
          max_resid |-> max_resid + 1]
    ELSE LET residue == residue_opt.res
         IN  [info |-> [atom_hetatm |-> IF residue.std THEN "ATOM" ELSE "HETATM",
                        resname |-> residue.name,
                        resid |-> to_pdb_index(residue.id - 1, 4),
                        chainid |-> residue.chainid,
                        inscode |-> residue.icode,
                        comp_type |-> residue.comp],
              max_resid |-> max_resid]

\* a mutant of needs_ter_record: only the empty composition type is exempt
needs_ter_record_OnlyEmpty(residue) == residue.comp_type # ""

needs_ter_record(residue) ==
    ~(\/ residue.comp_type = ""
      \/ residue.comp_type = "other" \/ residue.comp_type = "OTHER"
      \/ residue.comp_type = "non-polymer" \/ residue.comp_type = "NON-POLYMER")

\* adjust_for_ter_residues: v plus the number of entries of ters below v + 1
adjust_for_ter_residues(v, ters) == v + LowerBound(ters, v + 1)

\* max_resid: the biggest residue id of the frame, 0 if none is positive
MaxResid(frame) ==
    LET ids == {frame.residues[k].id : k \in 1..Len(frame.residues)} \cup {0}
    IN  CHOOSE m \in ids : \A o \in ids : o <= m

RECURSIVE Pow10(_)
Pow10(n) == IF n = 0 THEN 1 ELSE 10 * Pow10(n - 1)

\* check_values_size throws: a value is above 10^width - 1 or below -10^(width-1) + 1
check_values_size(values, width) ==
    LET max_pos == Pow10(width) - 1
        max_neg == -Pow10(width - 1) + 1
    IN  \E k \in 1..3 : values[k] > max_pos \/ values[k] < max_neg

\* the loop over the atoms: ATOM / HETATM rows with the TER rows between them; it
\* stops, after the TER row if there is one, at an atom check_values_size refuses
RECURSIVE write_atoms(_, _, _)
write_atoms(frame, w, i) ==
    IF i >= Len(frame.atoms) THEN w
    ELSE LET residue == residue_for_atom(frame, i)
             g == get_residue_strings(residue, w.max_resid)
             r == g.info
             ter == w.last.some /\ w.last.res.chainid # r.chainid
                    /\ needs_ter_record(w.last.res)
             terRow == TerLine(to_pdb_index(i + w.ter_count, 5), w.last.res.resname,
                               w.last.res.chainid, w.last.res.resid)
             ter_count == IF ter THEN w.ter_count + 1 ELSE w.ter_count
             \* a column of asterisks is a field the reader cannot decode
             row == [AtomLine(r.atom_hetatm, to_pdb_index(i + ter_count, 5),
                              frame.atoms[i + 1].name, frame.atoms[i + 1].type,
                              r.resname, r.chainid, r.resid)
                     EXCEPT !.icode = r.inscode, !.resok = r.resid # Asterisks,
                            !.xyz = frame.positions[i + 1]]
             warned == (IF residue.some THEN Warns(residue.res.id - 1, 4)
                        ELSE Warns(w.max_resid, 4))
                       + (IF ter THEN Warns(i + w.ter_count, 5) ELSE 0)
                       + Warns(i + ter_count, 5)
         IN  IF check_values_size(frame.positions[i + 1], 8)
             THEN [w EXCEPT !.lines = @ \o (IF ter THEN <<terRow>> ELSE <<>>),
                            !.warnings = @ + (IF ter THEN Warns(i + w.ter_count, 5) ELSE 0),
                            !.error = TRUE]
             ELSE write_atoms(frame,
                [lines |-> w.lines \o (IF ter THEN <<terRow>> ELSE <<>>) \o <<row>>,
                 ter_count |-> ter_count,
                 ter_serial_numbers |->
                    IF ter THEN Append(w.ter_serial_numbers, i + w.ter_count)
                    ELSE w.ter_serial_numbers,
                 last |-> IF residue.some THEN SomeResidue(r) ELSE NoResidue,
                 max_resid |-> g.max_resid,
                 is_atom_record |-> Append(w.is_atom_record, r.atom_hetatm = "ATOM"),
                 warnings |-> w.warnings + warned, error |-> FALSE],
                i + 1)

\* a mutant of EmittedBonds: a bond is skipped when either atom is an ATOM record
EmittedBonds_Either(frame, is_atom_record) ==
    {b \in frame.bonds : ~(is_atom_record[b[1] + 1] \/ is_atom_record[b[2] + 1])}

\* the bonds that go to CONECT rows: not between two ATOM-record atoms
EmittedBonds(frame, is_atom_record) ==
    {b \in frame.bonds : ~(is_atom_record[b[1] + 1] /\ is_atom_record[b[2] + 1])}

\* ascending sequence of a finite set of integers
RECURSIVE SortedInts(_)
SortedInts(S) ==
    IF S = {} THEN <<>>
    ELSE LET m == CHOOSE x \in S : \A y \in S : x <= y
         IN  <<m>> \o SortedInts(S \ {m})

\* the atoms bonded to atom i by an emitted bond, in the order of the sorted bonds
connect_atoms(frame, w, i) ==
    LET E == EmittedBonds(frame, w.is_atom_record)
    IN  SortedInts({b[2] : b \in {c \in E : c[1] = i}}
                   \cup {b[1] : b \in {c \in E : c[2] = i}})

\* connect[i]: the adjusted indexes pushed for atom i
connect(frame, w, i) ==
    LET partners == connect_atoms(frame, w, i)
    IN  [k \in 1..Len(partners) |->
            adjust_for_ter_residues(partners[k], w.ter_serial_numbers)]

\* the CONECT rows of atom i: connections / 4 + 1 rows of up to four partners
conect_rows(frame, w, i) ==
    LET c == connect(frame, w, i)
        connections == Len(c)
        lines == (connections \div 4) + 1
        correction == adjust_for_ter_residues(i, w.ter_serial_numbers)
        Min(x, y) == IF x < y THEN x ELSE y
    IN  IF connections = 0 THEN <<>>
        ELSE [cl \in 1..lines |->
                [ConectLine(to_pdb_index(correction, 5),
                    [j \in 1..(Min(connections, 4 * cl) - 4 * (cl - 1)) |->
                        to_pdb_index(c[4 * (cl - 1) + j], 5)])
                 EXCEPT !.for_atoms = <<i>> \o
                    [j \in 1..(Min(connections, 4 * cl) - 4 * (cl - 1)) |->
                        connect_atoms(frame, w, i)[4 * (cl - 1) + j]]]]

RECURSIVE write_conect(_, _, _)
write_conect(frame, w, i) ==
    IF i >= Len(frame.atoms) THEN <<>>
    ELSE conect_rows(frame, w, i) \o write_conect(frame, w, i + 1)

\* the state of write_next before its loop over the atoms
WriterStart(frame) ==
    [lines |-> <<>>, ter_count |-> 0, ter_serial_numbers |-> <<>>,
     last |-> NoResidue, max_resid |-> MaxResid(frame),
     is_atom_record |-> <<>>, warnings |-> 0, error |-> FALSE]

\* PDBFormat::write_next throws: check_values_size refuses the cell lengths or the
\* position of an atom
write_next_fails(frame) ==
    \/ check_values_size(frame.cell, 9)
    \/ write_atoms(frame, WriterStart(frame), 0).error

\* PDBFormat::write_next: the lines printed for one frame, up to the point where
\* the call throws if it does
write_next(frame, models_) ==
    LET w == write_atoms(frame, WriterStart(frame), 0)
        head == <<ModelLine(models_ + 1)>>
        cryst == [Rec("CRYST1") EXCEPT !.cell = frame.cell]
    IN  IF check_values_size(frame.cell, 9) THEN head
        ELSE IF w.error THEN head \o <<cryst>> \o w.lines
        ELSE head \o <<cryst>> \o w.lines \o write_conect(frame, w, 0)
             \o <<Rec("ENDMDL")>>

\* the warnings of the to_pdb_index calls for the CONECT rows of atom i
RECURSIVE conect_warnings(_, _, _)
conect_warnings(frame, w, i) ==
    IF i >= Len(frame.atoms) THEN 0
    ELSE LET c == connect(frame, w, i)
             rows == IF Len(c) = 0 THEN 0 ELSE (Len(c) \div 4) + 1
             sum[k \in 0..Len(c)] == IF k = 0 THEN 0 ELSE sum[k - 1] + Warns(c[k], 5)
         IN  rows * Warns(adjust_for_ter_residues(i, w.ter_serial_numbers), 5)
             + sum[Len(c)] + conect_warnings(frame, w, i + 1)

\* PDBFormat::write_next: the number of warnings of its to_pdb_index calls
write_next_warnings(frame) ==
    LET w == write_atoms(frame, WriterStart(frame), 0)
    IN  IF check_values_size(frame.cell, 9) THEN 0
        ELSE IF w.error THEN w.warnings
        ELSE w.warnings + conect_warnings(frame, w, 0)

----------------------------------------------------------------------------
(* Reading: the step index and the two ways of reading a step *)

NoStep ==
    [idx |-> -1, frame |-> EmptyFrame, end |-> 0, count |-> 0, error |-> FALSE,
     warnings |-> 0, ub |-> FALSE]
NoFrame == EmptyFrame
\* log: the frames handed to write_next so far, in call order
IdleWriter ==
    [models_ |-> 0, written_ |-> FALSE, closed |-> FALSE, block |-> <<>>, log |-> <<>>,
     warnings |-> 0, failed |-> FALSE]

\* the lines the files of the reading runs are made of
ReadLines ==
    { Rec("MODEL"), Rec("ENDMDL"), Rec("END"),
      AtomLine("ATOM", 1, "CA", "C", "ALA", "A", 1),
      AtomLine("HETATM", 2, "O", "O", "HOH", "A", 2) }

SeqsUpTo(S, n) == UNION {[1..k -> S] : k \in 0..n}

\* files made of blocks `MODEL, atom rows, ENDMDL`, with or without a final END
RECURSIVE Blocks(_, _)
Blocks(sizes, k) ==
    IF k > Len(sizes) THEN <<>>
    ELSE <<Rec("MODEL")>>
         \o [i \in 1..sizes[k] |->
                IF i = 1 THEN AtomLine("ATOM", 1, "CA", "C", "ALA", "A", 1)
                ELSE AtomLine("HETATM", 2, "O", "O", "HOH", "A", 2)]
         \o <<Rec("ENDMDL")>> \o Blocks(sizes, k + 1)

BlockFiles ==
    LET sizes == UNION {[1..n -> 1..MaxBlockAtoms] : n \in 1..MaxBlocks}
    IN  {Blocks(z, 1) : z \in sizes} \cup {Blocks(z, 1) \o <<Rec("END")>> : z \in sizes}

PDBFiles == SeqsUpTo(ReadLines, MaxLines) \cup BlockFiles
POSCARFiles == SeqsUpTo({Rec("REMARK")}, MaxLines)

InitRead ==
    /\ kind \in {"pdb", "poscar"}
    /\ file \in (IF kind = "pdb" THEN PDBFiles ELSE POSCARFiles)
    /\ fmt = NewFormat
    /\ index = <<>>
    /\ indexDone = FALSE
    /\ seq = NewFormat
    /\ seqLog = <<>>
    /\ step = NoStep
    /\ wframe = NoFrame
    /\ wst = IdleWriter
    /\ topology = NoTopology
    /\ traj = NoTrajectory

\* one call of forward() while the index is being built; a file of n lines has
\* at most n + 1 steps, so the engine is stopped after n + 2 returned offsets
Forward ==
    /\ kind \in {"pdb", "poscar"}
    /\ ~indexDone
    /\ Len(index) <= Len(file) + 1
    /\ LET r == IF kind = "pdb" THEN PDBForward(file, fmt.h)
                ELSE POSCARForward(file, fmt.h)
       IN  /\ fmt' = [fmt EXCEPT !.h = r.h]
           /\ IF r.ret.some
              THEN /\ index' = Append(index, [start |-> r.ret.pos, end |-> r.h.pos])
                   /\ UNCHANGED indexDone
              ELSE /\ indexDone' = TRUE
                   /\ UNCHANGED index
    /\ UNCHANGED <<kind, file, seq, seqLog, step, wframe, wst, topology, traj>>

\* the next of the nsteps sequential read_next calls, made without any seek
Read ==
    /\ kind = "pdb"
    /\ indexDone
    /\ Len(seqLog) < Len(index)
    /\ LET st == read_next(file, seq)
       IN  /\ seq' = AfterRead(st)
           /\ seqLog' = Append(seqLog, [frame |-> st.frame, start |-> seq.h.pos,
                                        end |-> st.h.pos, error |-> st.error \/ st.ub,
                                        warnings |-> st.warnings, ub |-> st.ub,
                                        at_conect |-> st.at_conect])
    /\ UNCHANGED <<kind, file, fmt, index, indexDone, step, wframe, wst, topology, traj>>

\* read_step(i): seek to the i-th offset of the index, then read_next
ReadStep(i) ==
    /\ kind = "pdb"
    /\ indexDone
    /\ i < Len(index)
    /\ step.count < MaxSeeks
    /\ LET st == read_next(file, [fmt EXCEPT !.h = SeekPos(fmt.h, index[i + 1].start)])
       IN  /\ fmt' = AfterRead(st)
           /\ step' = [idx |-> i, frame |-> st.frame, end |-> st.h.pos,
                      count |-> step.count + 1, error |-> st.error \/ st.ub,
                      warnings |-> st.warnings, ub |-> st.ub]
    /\ UNCHANGED <<kind, file, index, indexDone, seq, seqLog, wframe, wst, topology, traj>>

NextRead ==
    \/ Forward
    \/ Read
    \/ \E i \in 0..MaxLines : ReadStep(i)

SpecRead == InitRead /\ [][NextRead]_vars

----------------------------------------------------------------------------
(* Reading: files that exercise the parsing of the records *)

\* the residue key of residue id on chain A
KeyA(id) == <<"A", id, " ">>

\* one HELIX line, then atom lines of the residues 1..3 of chain A in any order
SecFiles ==
    {<<SecLine("HELIX", KeyA(a), KeyA(b), "alpha helix")>>
        \o [i \in 1..Len(ids) |-> AtomLine("ATOM", i, "CA", "C", "ALA", "A", ids[i])] :
        a \in 1..3, b \in 1..3,
        ids \in UNION {[1..n -> 1..3] : n \in 1..MaxSecAtoms}}

\* the atom lines of one residue: the atoms `names`, in the order N, C, P, O3'
ResidueLines(resname, resid, names, first) ==
    LET ordered == SelectSeq(<<"N", "C", "P", "O3'">>, LAMBDA n : n \in names)
    IN  [i \in 1..Len(ordered) |->
            AtomLine("ATOM", first + i, ordered[i], ordered[i], resname, "A", resid)]

\* two standard residues of chain A, the second with the next id or the one after,
\* each with one or two of the backbone atoms N, C, P, O3'
LinkFiles ==
    LET sets == {S \in SUBSET {"N", "C", "P", "O3'"} : Cardinality(S) \in {1, 2}}
    IN  {ResidueLines(n1, 1, S1, 0) \o ResidueLines(n2, id2, S2, Cardinality(S1)) :
            n1 \in {"GLY", "DA"}, n2 \in {"GLY", "DA"}, S1 \in sets, S2 \in sets,
            id2 \in {2, 3}}

\* ATOM, TER, HETATM and CONECT lines with the serials 1, 2, 3, in any order
OffsetLines ==
    {AtomLine("ATOM", 1, "CA", "C", "ALA", "A", 1), TerLine(2, "ALA", "A", 1),
     AtomLine("HETATM", 3, "O", "O", "HOH", "B", 2), ConectLine(1, <<3>>)}

OffsetFiles == UNION {[1..n -> OffsetLines] : n \in 1..MaxOffsetLines}

\* unknown, blank and ignored records among ATOM and END records; the last line
\* of a file with or without its line terminator
JunkLines ==
    {Rec("FOO"), Rec(""), Rec("REMARK"), Rec("END"),
     AtomLine("ATOM", 1, "CA", "C", "ALA", "A", 1)}

NoNewline(f) == [f EXCEPT ![Len(f)].nonl = TRUE]

JunkFiles ==
    LET files == UNION {[1..n -> JunkLines] : n \in 1..MaxJunkLines}
    IN  files \cup {NoNewline(f) : f \in files}

\* the well-formed records of a file, and records with one malformed numeric field
GoodLines ==
    <<AtomLine("ATOM", 1, "CA", "C", "ALA", "A", 1),
      AtomLine("HETATM", 2, "O", "O", "HOH", "B", 2), ConectLine(1, <<2>>),
      AtomLine("HETATM", 3, "S", "S", "LIG", "B", 3)>>

BadLines ==
    {[Rec("CRYST1") EXCEPT !.bad = "cell"],
     [AtomLine("ATOM", 3, "N", "N", "ALA", "A", 1) EXCEPT !.bad = "xyz"],
     [AtomLine("ATOM", 0, "N", "N", "ALA", "A", 1) EXCEPT !.bad = "serial"],
     [AtomLine("ATOM", 3, "N", "N", "ALA", "A", 0) EXCEPT !.resok = FALSE],
     [ConectLine(0, <<2>>) EXCEPT !.bad = "head"],
     [ConectLine(1, <<0>>) EXCEPT !.bad = "partner"]}

\* some well-formed records, one record with a malformed field, maybe one more atom
BadFiles ==
    {SubSeq(GoodLines, 1, n) \o <<b>> \o post :
        n \in {m \in 0..MaxGoodLines : m <= Len(GoodLines)},
        b \in BadLines,
        post \in {<<>>, <<AtomLine("HETATM", 4, "O", "O", "HOH", "B", 4)>>}}

\* ATOM, HETATM and TER lines of the residues A 1 and B 1, and an atom line whose
\* residue number cannot be decoded
ResLines ==
    {AtomLine("ATOM", 1, "CA", "C", "ALA", "A", 1),
     AtomLine("HETATM", 2, "O", "O", "HOH", "A", 1),
     AtomLine("ATOM", 3, "N", "N", "GLY", "B", 1),
     [AtomLine("ATOM", 4, "C", "C", "GLY", "B", 0) EXCEPT !.resok = FALSE],
     TerLine(5, "ALA", "A", 1)}

ResFiles == UNION {[1..n -> ResLines] : n \in 1..MaxResLines}

InitRes ==
    /\ kind = "pdb"
    /\ file \in ResFiles
    /\ fmt = NewFormat
    /\ index = <<>>
    /\ indexDone = FALSE
    /\ seq = NewFormat
    /\ seqLog = <<>>
    /\ step = NoStep
    /\ wframe = NoFrame
    /\ wst = IdleWriter
    /\ topology = NoTopology
    /\ traj = NoTrajectory

SpecRes == InitRes /\ [][NextRead]_vars

\* CONECT lines with a head and one or two partners, all different from the head
ConectLines ==
    {ConectLine(x[1], x[2]) :
        x \in {y \in (0..MaxConectSerial)
                        \X UNION {[1..n -> 0..MaxConectSerial] : n \in 1..2} :
                    \A k \in 1..Len(y[2]) : y[2][k] # y[1]}}

\* one or two HETATM lines with the serials first, first + 1, one CONECT line
\* before, between or after them, and END
ConectFile(first, two, place, c) ==
    LET a1 == <<AtomLine("HETATM", first, "O", "O", "HOH", "A", 1)>>
        a2 == IF two THEN <<AtomLine("HETATM", first + 1, "S", "S", "LIG", "A", 2)>>
              ELSE <<>>
    IN  (IF place = 0 THEN <<c>> ELSE <<>>) \o a1
        \o (IF place = 1 THEN <<c>> ELSE <<>>) \o a2
        \o (IF place = 2 THEN <<c>> ELSE <<>>) \o <<Rec("END")>>

ConectFiles ==
    {ConectFile(first, two, place, c) :
        first \in {1, 3}, two \in BOOLEAN, place \in 0..2, c \in ConectLines}

InitConectRead ==
    /\ kind = "pdb"
    /\ file \in ConectFiles
    /\ fmt = NewFormat
    /\ index = <<>>
    /\ indexDone = FALSE
    /\ seq = NewFormat
    /\ seqLog = <<>>
    /\ step = NoStep
    /\ wframe = NoFrame
    /\ wst = IdleWriter
    /\ topology = NoTopology
    /\ traj = NoTrajectory

SpecConectRead == InitConectRead /\ [][NextRead]_vars

\* the atom line of residue key k, with the serial n
KeyAtom(n, k) == AtomLine("ATOM", n, "CA", "C", "ALA", k[1], k[2])

\* two frames: one HELIX line and atoms of the residues 1..3 of chain A, ENDMDL,
\* then atoms of these residues or of residue 7 of chain B, ENDMDL
LeakFiles ==
    {<<SecLine("HELIX", KeyA(a), KeyA(b), "alpha helix")>>
        \o [i \in 1..Len(ids) |-> KeyAtom(i, KeyA(ids[i]))]
        \o <<Rec("ENDMDL")>>
        \o [i \in 1..Len(keys) |-> KeyAtom(i, keys[i])]
        \o <<Rec("ENDMDL")>> :
        a \in 1..3, b \in 1..3,
        ids \in UNION {[1..n -> 1..3] : n \in 1..MaxLeakAtoms},
        keys \in UNION {[1..n -> {KeyA(1), KeyA(2), KeyA(3), <<"B", 7, " ">>}] :
                            n \in 1..MaxLeakAtoms}}

InitLeak ==
    /\ kind = "pdb"
    /\ file \in LeakFiles
    /\ fmt = NewFormat
    /\ index = <<>>
    /\ indexDone = FALSE
    /\ seq = NewFormat
    /\ seqLog = <<>>
    /\ step = NoStep
    /\ wframe = NoFrame
    /\ wst = IdleWriter
    /\ topology = NoTopology
    /\ traj = NoTrajectory

SpecLeak == InitLeak /\ [][NextRead]_vars

ParseFiles == SecFiles \cup LinkFiles \cup OffsetFiles \cup JunkFiles \cup BadFiles

InitParse ==
    /\ kind = "pdb"
    /\ file \in ParseFiles
    /\ fmt = NewFormat
    /\ index = <<>>
    /\ indexDone = FALSE
    /\ seq = NewFormat
    /\ seqLog = <<>>
    /\ step = NoStep
    /\ wframe = NoFrame
    /\ wst = IdleWriter
    /\ topology = NoTopology
    /\ traj = NoTrajectory

SpecParse == InitParse /\ [][NextRead]_vars

----------------------------------------------------------------------------
(* Writing: write_next, close, and reading the written file back *)

AtomNames == <<"C1", "O2", "N3", "S4", "P5", "F6", "B7">>
AtomTypes == <<"C", "O", "N", "S", "P", "F", "B">>
CompTypes == {"", "other", "OTHER", "non-polymer", "NON-POLYMER", "L-PEPTIDE LINKING"}

\* what a frame says about the residue of one atom: none, or chain, type, flag
NoDesc == [res |-> FALSE, chainid |-> "X", comp |-> "", std |-> FALSE]
Descs(chains, comps, stds) ==
    {[res |-> TRUE, chainid |-> c, comp |-> t, std |-> b] :
        c \in chains, t \in comps, b \in stds}

\* a frame of Len(desc) atoms, each atom with a residue being a residue of its own
MkFrame(desc, bonds) ==
    LET withRes == SortedInts({i \in 1..Len(desc) : desc[i].res})
    IN  [atoms |-> [i \in 1..Len(desc) |-> [name |-> AtomNames[i], type |-> AtomTypes[i]]],
         residues |-> [k \in 1..Len(withRes) |->
            [name |-> "LIG", id |-> withRes[k], atoms |-> <<withRes[k] - 1>>,
             icode |-> " ", std |-> desc[withRes[k]].std,
             chainid |-> desc[withRes[k]].chainid, comp |-> desc[withRes[k]].comp,
             sec |-> ""]],
         bonds |-> bonds,
         positions |-> [i \in 1..Len(desc) |-> <<0, 0, 0>>], cell |-> <<0, 0, 0>>]

\* the sets of at most k of the pairs P
RECURSIVE PairSets(_, _)
PairSets(P, k) ==
    IF k = 0 THEN {{}}
    ELSE LET S == PairSets(P, k - 1) IN S \cup {B \cup {p} : B \in S, p \in P}

AtomPairs(n) == {<<i, j>> \in (0..(n - 1)) \X (0..(n - 1)) : i < j}
BondSets(n) == PairSets(AtomPairs(n), MaxBonds)

\* frames without bonds, over every composition type
TerFrames ==
    {MkFrame(d, {}) :
        d \in UNION {[1..n -> {NoDesc} \cup Descs({"A", "B"}, CompTypes, {FALSE})]
                        : n \in 1..MaxAtoms}}

\* frames with bonds, over ATOM and HETATM residues of two polymer chains
BondFrames ==
    UNION {{MkFrame(d, B) : B \in BondSets(Len(d))} :
        d \in UNION {[1..n -> {NoDesc} \cup
                        Descs({"A", "B"}, {"L-PEPTIDE LINKING"}, {TRUE, FALSE})]
                        : n \in 1..MaxAtoms}}

\* longer frames of HETATM residues of two polymer chains, with at most one bond
ChainFrames ==
    UNION {{MkFrame(d, B) : B \in PairSets(AtomPairs(Len(d)), 1)} :
        d \in UNION {[1..n -> Descs({"A", "B"}, {"L-PEPTIDE LINKING"}, {FALSE})]
                        : n \in 1..MaxChainAtoms}}

InitWrite ==
    /\ kind = "write"
    /\ file = <<>>
    /\ fmt = NewFormat
    /\ index = <<>>
    /\ indexDone = FALSE
    /\ seq = NewFormat
    /\ seqLog = <<>>
    /\ step = NoStep
    /\ wframe \in TerFrames \cup BondFrames \cup ChainFrames
    /\ wst = IdleWriter
    /\ topology = NoTopology
    /\ traj = NoTrajectory

\* write_next(wframe) on the format opened for writing
WriteNext ==
    /\ kind = "write"
    /\ ~wst.closed
    /\ Len(wst.log) < MaxWrites
    /\ LET lines == write_next(wframe, wst.models_)
           fails == write_next_fails(wframe)
       IN  /\ file' = file \o lines
           /\ wst' = [wst EXCEPT !.written_ = TRUE,
                                  !.models_ = IF fails THEN @ ELSE @ + 1,
                                  !.block = lines, !.failed = fails,
                                  !.log = Append(@, wframe),
                                  !.warnings = @ + write_next_warnings(wframe)]
    /\ UNCHANGED <<kind, fmt, index, indexDone, seq, seqLog, step, wframe, topology, traj>>

\* a mutant of Close: END is printed whether or not a frame was written
Close_AlwaysEnd ==
    /\ kind \in {"write", "writeseq"}
    /\ ~wst.closed
    /\ file' = file \o <<Rec("END")>>
    /\ wst' = [wst EXCEPT !.closed = TRUE]
    /\ UNCHANGED <<kind, fmt, index, indexDone, seq, seqLog, step, wframe, topology, traj>>

\* ~PDBFormat: END is printed if a frame was written
Close ==
    /\ kind \in {"write", "writeseq"}
    /\ ~wst.closed
    /\ file' = file \o (IF wst.written_ THEN <<Rec("END")>> ELSE <<>>)
    /\ wst' = [wst EXCEPT !.closed = TRUE]
    /\ UNCHANGED <<kind, fmt, index, indexDone, seq, seqLog, step, wframe, topology, traj>>

\* the written file is opened for reading and its first frame read
ReadBack ==
    /\ kind = "write"
    /\ wst.closed
    /\ wst.written_
    /\ step.idx < 0
    /\ LET st == read_next(file, NewFormat)
       IN  /\ fmt' = AfterRead(st)
           /\ step' = [idx |-> 0, frame |-> st.frame, end |-> st.h.pos, count |-> 1,
                       error |-> st.error \/ st.ub, warnings |-> st.warnings,
                       ub |-> st.ub]
    /\ UNCHANGED <<kind, file, index, indexDone, seq, seqLog, wframe, wst, topology, traj>>

NextWrite ==
    \/ WriteNext
    \/ Close
    \/ ReadBack

SpecWrite == InitWrite /\ [][NextWrite]_vars

----------------------------------------------------------------------------
(* Writing frames whose residue ids are at the limit of the resSeq column *)

\* a frame of n atoms: the first in a residue with the given id, the others without
BigFrame(id, n) ==
    [atoms |-> [i \in 1..n |-> [name |-> AtomNames[i], type |-> AtomTypes[i]]],
     residues |-> <<[name |-> "LIG", id |-> id, atoms |-> <<0>>, icode |-> " ",
                     std |-> FALSE, chainid |-> "A", comp |-> "", sec |-> ""]>>,
     bonds |-> {}, positions |-> [i \in 1..n |-> <<0, 0, 0>>], cell |-> <<0, 0, 0>>]

\* residue ids around the first id that does not fit 4 columns, and around the
\* first that does not fit 5
BigIds ==
    UNION {(m + 1 - EncSlack)..(m + 1 + EncSlack) :
            m \in {MAX_HYBRID36_W4_NUMBER, MAX_HYBRID36_W5_NUMBER}}

BigFrames == {BigFrame(id, n) : id \in BigIds, n \in 1..3}

InitEncode ==
    /\ kind = "write"
    /\ file = <<>>
    /\ fmt = NewFormat
    /\ index = <<>>
    /\ indexDone = FALSE
    /\ seq = NewFormat
    /\ seqLog = <<>>
    /\ step = NoStep
    /\ wframe \in BigFrames
    /\ wst = IdleWriter
    /\ topology = NoTopology
    /\ traj = NoTrajectory

SpecEncode == InitEncode /\ [][NextWrite]_vars

----------------------------------------------------------------------------
(* Writing several frames to one file *)

\* what the atoms of these frames say about their residues
SeqDescs ==
    {NoDesc,
     [res |-> TRUE, chainid |-> "A", comp |-> "L-PEPTIDE LINKING", std |-> FALSE],
     [res |-> TRUE, chainid |-> "B", comp |-> "L-PEPTIDE LINKING", std |-> FALSE]}

\* frames of zero, one or two atoms, the two-atom frames with and without a bond
SeqFrames ==
    {MkFrame(<<>>, {})} \cup {MkFrame(<<d>>, {}) : d \in SeqDescs}
    \cup {MkFrame(<<d, e>>, B) : d \in SeqDescs, e \in SeqDescs, B \in {{}, {<<0, 1>>}}}

InitWriteSeq ==
    /\ kind = "writeseq"
    /\ file = <<>>
    /\ fmt = NewFormat
    /\ index = <<>>
    /\ indexDone = FALSE
    /\ seq = NewFormat
    /\ seqLog = <<>>
    /\ step = NoStep
    /\ wframe = NoFrame
    /\ wst = IdleWriter
    /\ topology = NoTopology
    /\ traj = NoTrajectory

\* write_next(fr): the next frame of a trajectory written frame after frame
WriteFrame(fr) ==
    /\ kind \in {"writeseq", "capi"}
    /\ ~wst.closed
    /\ Len(wst.log) < MaxModels
    /\ LET lines == write_next(fr, wst.models_)
           fails == write_next_fails(fr)
       IN  /\ file' = file \o lines
           /\ wst' = [wst EXCEPT !.written_ = TRUE,
                                  !.models_ = IF fails THEN @ ELSE @ + 1,
                                  !.block = lines, !.failed = fails,
                                  !.log = Append(@, fr),
                                  !.warnings = @ + write_next_warnings(fr)]
    /\ wframe' = fr
    /\ UNCHANGED <<kind, fmt, index, indexDone, seq, seqLog, step, topology, traj>>

NextWriteSeq ==
    \/ \E fr \in SeqFrames : WriteFrame(fr)
    \/ Close

SpecWriteSeq == InitWriteSeq /\ [][NextWriteSeq]_vars

----------------------------------------------------------------------------
(* Writing frames whose atoms have up to four bonds *)

\* frames of MaxStarAtoms atoms with any bonds: all atoms without residue (HETATM
\* rows), or the first two in standard residues of chain A (ATOM rows)
StarFrames ==
    LET het == [i \in 1..MaxStarAtoms |-> NoDesc]
        std == [i \in 1..MaxStarAtoms |->
                    IF i <= 2 THEN [res |-> TRUE, chainid |-> "A", comp |-> "", std |-> TRUE]
                    ELSE NoDesc]
    IN  {MkFrame(d, B) : d \in {het, std}, B \in SUBSET AtomPairs(MaxStarAtoms)}

InitConect ==
    /\ kind = "write"
    /\ file = <<>>
    /\ fmt = NewFormat
    /\ index = <<>>
    /\ indexDone = FALSE
    /\ seq = NewFormat
    /\ seqLog = <<>>
    /\ step = NoStep
    /\ wframe \in StarFrames
    /\ wst = IdleWriter
    /\ topology = NoTopology
    /\ traj = NoTrajectory

SpecConect == InitConect /\ [][NextWrite]_vars

----------------------------------------------------------------------------
(* Writing frames whose cell lengths and coordinates are at the limits of the
   CRYST1 and ATOM columns *)

\* coordinates around the smallest and biggest values of 8 columns with 3
\* decimals, and around the two limits check_values_size uses for width 8
CoordValues ==
    {0, -999, -1000, 9999, 10000, -9999999, -10000000, 99999999, 100000000}

\* cell lengths around the biggest value of 9 columns with 3 decimals, and around
\* the limit check_values_size uses for width 9
CellValues == {0, 99999, 100000, 999999999, 1000000000}

\* a Vector3D with the value v as component k, 0 elsewhere
Along(k, v) == [c \in 1..3 |-> IF c = k THEN v ELSE 0]

\* a frame of n HETATM atoms of two chains, the cell length c (a or c according to
\* kc) and the coordinate v as component k of atom i
ValueFrame(n, kc, c, i, k, v) ==
    [MkFrame([a \in 1..n |-> [res |-> TRUE, chainid |-> IF a = 1 THEN "A" ELSE "B",
                              comp |-> "L-PEPTIDE LINKING", std |-> FALSE]], {})
     EXCEPT !.cell = Along(kc, c),
            !.positions = [a \in 1..n |-> IF a = i THEN Along(k, v) ELSE <<0, 0, 0>>]]

ValueFrames ==
    {ValueFrame(n, kc, c, i, k, 0) : n \in 1..2, kc \in {1, 3}, c \in CellValues,
        i \in {1}, k \in {1}}
    \cup {ValueFrame(n, 1, 0, i, k, v) : n \in 1..2, i \in 1..2, k \in 1..3,
            v \in CoordValues}

NextValues ==
    \/ \E fr \in ValueFrames : WriteFrame(fr)
    \/ Close

SpecValues == InitWriteSeq /\ [][NextValues]_vars

----------------------------------------------------------------------------
(* POSCARFormat::read_next and POSCARFormat::write_next *)

\* read_next(frame): a format error unless the file is at position 0; the rest of
\* the body is empty, so the frame and the position are left as they are
POSCAR_read_next(h, frame) == [error |-> h.pos # 0, frame |-> frame, h |-> h]

\* write_next(frame): a format error unless the file is at position 0; the rest
\* of the body is empty, so nothing is printed
POSCAR_write_next(h, frame) == [error |-> h.pos # 0, lines |-> <<>>, h |-> h]

\* the frames handed to read_next and write_next
PoscarFrames == {MkFrame(<<>>, {})} \cup {MkFrame(<<d>>, {}) : d \in SeqDescs}

\* no call made yet; reads and writes count the calls that succeeded
NoCall ==
    [op |-> "none", error |-> FALSE, given |-> EmptyFrame, frame |-> EmptyFrame,
     pos0 |-> 0, pos1 |-> 0, prior |-> 0, reads |-> 0, writes |-> 0, count |-> 0]

InitPoscar ==
    /\ kind \in {"poscar_read", "poscar_write"}
    /\ file \in (IF kind = "poscar_read" THEN POSCARFiles ELSE {<<>>})
    /\ fmt = NewFormat
    /\ index = <<>>
    /\ indexDone = FALSE
    /\ seq = NewFormat
    /\ seqLog = <<>>
    /\ step = NoCall
    /\ wframe = NoFrame
    /\ wst = IdleWriter
    /\ topology = NoTopology
    /\ traj = NoTrajectory

\* one call of forward() on the reading object
PoscarForward ==
    /\ kind = "poscar_read"
    /\ step.count < MaxCalls
    /\ LET r == POSCARForward(file, fmt.h)
       IN  /\ fmt' = [fmt EXCEPT !.h = r.h]
           /\ step' = [step EXCEPT !.op = "forward", !.error = FALSE,
                                    !.pos0 = fmt.h.pos, !.pos1 = r.h.pos,
                                    !.count = @ + 1]
    /\ UNCHANGED <<kind, file, index, indexDone, seq, seqLog, wframe, wst, topology, traj>>

\* one call of read_next(fr) on the reading object
PoscarRead(fr) ==
    /\ kind = "poscar_read"
    /\ step.count < MaxCalls
    /\ LET r == POSCAR_read_next(fmt.h, fr)
       IN  /\ fmt' = [fmt EXCEPT !.h = r.h]
           /\ step' = [op |-> "read_next", error |-> r.error, given |-> fr,
                       frame |-> r.frame, pos0 |-> fmt.h.pos, pos1 |-> r.h.pos,
                       prior |-> step.reads,
                       reads |-> step.reads + (IF r.error THEN 0 ELSE 1),
                       writes |-> step.writes, count |-> step.count + 1]
    /\ UNCHANGED <<kind, file, index, indexDone, seq, seqLog, wframe, wst, topology, traj>>

\* one call of write_next(fr) on the writing object
PoscarWrite(fr) ==
    /\ kind = "poscar_write"
    /\ step.count < MaxCalls
    /\ LET r == POSCAR_write_next(fmt.h, fr)
       IN  /\ fmt' = [fmt EXCEPT !.h = r.h]
           /\ file' = file \o r.lines
           /\ step' = [op |-> "write_next", error |-> r.error, given |-> fr,
                       frame |-> fr, pos0 |-> fmt.h.pos, pos1 |-> r.h.pos,
                       prior |-> step.writes, reads |-> step.reads,
                       writes |-> step.writes + (IF r.error THEN 0 ELSE 1),
                       count |-> step.count + 1]
    /\ UNCHANGED <<kind, index, indexDone, seq, seqLog, wframe, wst, topology, traj>>

NextPoscar ==
    \/ PoscarForward
    \/ \E fr \in PoscarFrames : PoscarRead(fr)
    \/ \E fr \in PoscarFrames : PoscarWrite(fr)

SpecPoscar == InitPoscar /\ [][NextPoscar]_vars

----------------------------------------------------------------------------
(* Closing a trajectory through the C API *)

\* a CHFL_TRAJECTORY opened for writing a PDB file
OpenTrajectory ==
    [open |-> TRUE, status |-> "none", released |-> 0, flush_failed |-> FALSE,
     events |-> <<>>]

InitCapi ==
    /\ kind = "capi"
    /\ file = <<>>
    /\ fmt = NewFormat
    /\ index = <<>>
    /\ indexDone = FALSE
    /\ seq = NewFormat
    /\ seqLog = <<>>
    /\ step = NoStep
    /\ wframe = NoFrame
    /\ wst = IdleWriter
    /\ topology = NoTopology
    /\ traj = OpenTrajectory

\* chfl_trajectory_close(file): delete file runs ~PDBFormat, which prints END if a
\* frame was written, and then releases the file, whose flush succeeds or not;
\* the function has one return statement, return CHFL_SUCCESS
chfl_trajectory_close(flush_ok) ==
    /\ kind = "capi"
    /\ traj.open
    /\ file' = file \o (IF wst.written_ THEN <<Rec("END")>> ELSE <<>>)
    /\ wst' = [wst EXCEPT !.closed = TRUE]
    /\ traj' = [traj EXCEPT !.open = FALSE, !.status = "CHFL_SUCCESS",
                            !.released = @ + 1, !.flush_failed = ~flush_ok,
                            !.events = @ \o <<"format", "file">>]
    /\ UNCHANGED <<kind, fmt, index, indexDone, seq, seqLog, step, wframe, topology>>

NextCapi ==
    \/ \E fr \in SeqFrames : WriteFrame(fr)
    \/ \E flush_ok \in BOOLEAN : chfl_trajectory_close(flush_ok)

SpecCapi == InitCapi /\ [][NextCapi]_vars

----------------------------------------------------------------------------
(* Topology: atoms, bonds and the angles derived from the bonds *)

TopNames == {"H", "O"}

\* lexicographic order of two tuples of the same length
LexLess(a, b) ==
    \E p \in 1..Len(a) : a[p] < b[p] /\ \A q \in 1..(p - 1) : a[q] = b[q]

\* the elements of a set of tuples, in increasing order
RECURSIVE SortedSeq(_)
SortedSeq(S) ==
    IF S = {} THEN <<>>
    ELSE LET m == CHOOSE x \in S : \A y \in S \ {x} : LexLess(x, y)
         IN  <<m>> \o SortedSeq(S \ {m})

Min2(a, b) == IF a < b THEN a ELSE b
Max2(a, b) == IF a < b THEN b ELSE a

\* Angle(i, j, k): the central atom j between the two others, the smaller first
Angle(i, j, k) == <<Min2(i, k), j, Max2(i, k)>>

EmptyTopology ==
    [atoms |-> <<>>, bonds_ |-> <<>>, angles_ |-> <<>>, uptodate_ |-> FALSE,
     calls |-> {}, op |-> "new", result |-> <<>>]

\* sorted_set::insert: the bond goes to its place of the sorted vector, once
insert_bond(bonds, b) ==
    IF \E p \in 1..Len(bonds) : bonds[p] = b THEN bonds
    ELSE LET before == SelectSeq(bonds, LAMBDA x : LexLess(x, b))
             after == SelectSeq(bonds, LAMBDA x : LexLess(b, x))
         IN  before \o <<b>> \o after

neighbours(bonds, j) ==
    {bonds[p][1] : p \in {q \in 1..Len(bonds) : bonds[q][2] = j}}
    \cup {bonds[p][2] : p \in {q \in 1..Len(bonds) : bonds[q][1] = j}}

\* recalculate: for every atom j and every pair of distinct neighbours of j, one
\* angle; the result sorted and without duplicates
recalculate(t) ==
    LET n == Len(t.atoms)
        nb == [j \in 0..(n - 1) |-> neighbours(t.bonds_, j)]
        around(j) == {Angle(x[1], j, x[2]) : x \in {y \in nb[j] \X nb[j] : y[1] # y[2]}}
        found == UNION {around(j) : j \in 0..(n - 1)}
    IN  [t EXCEPT !.angles_ = SortedSeq(found), !.uptodate_ = TRUE]

InitTopology ==
    /\ kind = "topology"
    /\ file = <<>>
    /\ fmt = NewFormat
    /\ index = <<>>
    /\ indexDone = FALSE
    /\ seq = NewFormat
    /\ seqLog = <<>>
    /\ step = NoStep
    /\ wframe = NoFrame
    /\ wst = IdleWriter
    /\ topology = EmptyTopology
    /\ traj = NoTrajectory

\* add_atom(Atom(name))
add_atom(name) ==
    /\ kind = "topology"
    /\ Len(topology.atoms) < MaxTopAtoms
    /\ topology' = [topology EXCEPT !.atoms = Append(@, name), !.op = "add_atom",
                                      !.result = <<>>]
    /\ UNCHANGED <<kind, file, fmt, index, indexDone, seq, seqLog, step, wframe, wst, traj>>

\* add_bond(i, j) that leaves the memo of the angles as it is
add_bond_KeepMemo(i, j) ==
    /\ kind = "topology"
    /\ Cardinality(topology.calls) < MaxBondCalls
    /\ IF i = j \/ i >= Len(topology.atoms) \/ j >= Len(topology.atoms)
       THEN topology' = [topology EXCEPT !.op = "error", !.result = <<>>]
       ELSE topology' = [topology EXCEPT !.bonds_ = insert_bond(@, Bond(i, j)),
                                          !.calls = @ \cup {<<i, j>>},
                                          !.op = "add_bond", !.result = <<>>]
    /\ UNCHANGED <<kind, file, fmt, index, indexDone, seq, seqLog, step, wframe, wst, traj>>

\* add_bond(i, j): an error when the two indexes are equal or one is not an atom;
\* otherwise the bond is stored, the smaller index first, and the memo is dropped
add_bond(i, j) ==
    /\ kind = "topology"
    /\ Cardinality(topology.calls) < MaxBondCalls
    /\ IF i = j \/ i >= Len(topology.atoms) \/ j >= Len(topology.atoms)
       THEN topology' = [topology EXCEPT !.op = "error", !.result = <<>>]
       ELSE topology' = [topology EXCEPT !.bonds_ = insert_bond(@, Bond(i, j)),
                                          !.angles_ = <<>>, !.uptodate_ = FALSE,
                                          !.calls = @ \cup {<<i, j>>},
                                          !.op = "add_bond", !.result = <<>>]
    /\ UNCHANGED <<kind, file, fmt, index, indexDone, seq, seqLog, step, wframe, wst, traj>>

\* bonds(): the stored bonds
Topology_bonds ==
    /\ kind = "topology"
    /\ topology' = [topology EXCEPT !.op = "bonds", !.result = topology.bonds_]
    /\ UNCHANGED <<kind, file, fmt, index, indexDone, seq, seqLog, step, wframe, wst, traj>>

\* angles(): the memo, computed first when it is not up to date
Topology_angles ==
    /\ kind = "topology"
    /\ LET t == IF topology.uptodate_ THEN topology ELSE recalculate(topology)
       IN  topology' = [t EXCEPT !.op = "angles", !.result = t.angles_]
    /\ UNCHANGED <<kind, file, fmt, index, indexDone, seq, seqLog, step, wframe, wst, traj>>

NextTopology ==
    \/ \E name \in TopNames : add_atom(name)
    \/ \E i \in 0..(MaxTopAtoms - 1), j \in 0..(MaxTopAtoms - 1) : add_bond(i, j)
    \/ Topology_bonds
    \/ Topology_angles

SpecTopology == InitTopology /\ [][NextTopology]_vars

Init ==
    InitRead \/ InitParse \/ InitRes \/ InitLeak \/ InitConectRead \/ InitConect \/ InitWrite \/ InitEncode \/ InitWriteSeq \/ InitPoscar
    \/ InitCapi \/ InitTopology
Next ==
    NextRead \/ NextWrite \/ NextWriteSeq \/ NextValues \/ NextPoscar \/ NextCapi \/ NextTopology
Spec == Init /\ [][Next]_vars

----------------------------------------------------------------------------
(* Properties of the step index and of the frame boundaries *)

IsAtomLine(l) == l.rec \in {"ATOM", "HETATM"}

\* the calls made so far that read a frame: each with its start and end offset
ReadCalls ==
    {[start |-> seqLog[k].start, end |-> seqLog[k].end, frame |-> seqLog[k].frame]
        : k \in 1..Len(seqLog)}
    \cup (IF step.idx >= 0
          THEN {[start |-> index[step.idx + 1].start, end |-> step.end,
                 frame |-> step.frame]}
          ELSE {})

\* C1: for a PDB file whose index has N offsets, seeking to offset i and calling
\* read_next gives the same frame as the i-th of the N sequential read_next calls
C1_SeekEqualsSequential ==
    (kind = "pdb" /\ step.idx >= 0 /\ step.idx < Len(seqLog))
        => step.frame = seqLog[step.idx + 1].frame

\* offsets of the MODEL lines of a file, in file order
ModelStarts(f) ==
    LET P == {p \in 1..Len(f) : f[p].rec = "MODEL"}
    IN  [k \in 1..Cardinality(P) |->
            (CHOOSE p \in P : Cardinality({q \in P : q < p}) = k - 1) - 1]

\* C2: on a file of N blocks `MODEL, atom rows, ENDMDL` (with or without a final
\* END) forward() returns the offsets of the N blocks in order and then None
C2_BlockIndex ==
    (kind = "pdb" /\ file \in BlockFiles) =>
        LET starts == ModelStarts(file)
        IN  /\ Len(index) <= Len(starts)
            /\ \A k \in 1..Len(index) : index[k].start = starts[k]
            /\ indexDone => Len(index) = Len(starts)

C2_Witness ==
    /\ kind = "pdb"
    /\ file \in BlockFiles
    /\ indexDone
    /\ Len(index) = MaxBlocks
    /\ file[Len(file)].rec = "END"

\* C3: index building terminates, every offset returned before None being the
\* start of a distinct frame (PDBFormat::forward and POSCARFormat::forward)
C3_DistinctOffsets ==
    \A i, j \in 1..Len(index) : i # j => index[i].start # index[j].start

\* the offset after the first record that closes a frame at or after `start`:
\* an END, or an ENDMDL whose next line is not an END; the file's end if none
FrameEnd(f, start) ==
    LET T == {p \in (start + 1)..Len(f) :
                \/ f[p].rec = "END"
                \/ f[p].rec = "ENDMDL" /\ (p = Len(f) \/ f[p + 1].rec # "END")}
    IN  IF T = {} THEN Len(f) ELSE CHOOSE p \in T : \A q \in T : p <= q

AtomLinesIn(f, start, end) == {p \in (start + 1)..end : IsAtomLine(f[p])}

\* C4 as claimed: read_next returns no frame with zero atoms while atoms follow
C4_NoEmptyFrameBeforeAtoms ==
    \A c \in ReadCalls :
        c.frame.atoms = <<>> => AtomLinesIn(file, c.start, Len(file)) = {}

\* C4 amended: read_next ends the frame at the first END, or at the first ENDMDL
\* not directly followed by END, whether or not an atom was read before it; the
\* frame holds exactly the atoms of the lines read
C4_FrameEndsAtFirstEnd ==
    \A c \in ReadCalls :
        /\ c.end = FrameEnd(file, c.start)
        /\ Len(c.frame.atoms) = Cardinality(AtomLinesIn(file, c.start, c.end))

C4_Witness ==
    \E c \in ReadCalls :
        /\ c.frame.atoms = <<>>
        /\ c.end < Len(file)
        /\ AtomLinesIn(file, c.end, Len(file)) # {}

\* the calls made so far that consumed a frame: read_next and forward alike
AllCalls ==
    {[start |-> c.start, end |-> c.end] : c \in ReadCalls}
    \cup {[start |-> index[k].start, end |-> index[k].end] : k \in 1..Len(index)}

\* an END line directly below an ENDMDL line, at 1-based line p
EndAfterEndmdl(f, p) ==
    p >= 2 /\ p <= Len(f) /\ f[p].rec = "END" /\ f[p - 1].rec = "ENDMDL"

\* C5: when an ENDMDL is directly followed by an END, read_next and forward take
\* the END with the same frame: no call stops between the two lines and no frame
\* or index entry starts at that END
C5_EndAbsorbed ==
    kind = "pdb" =>
        \A c \in AllCalls :
            /\ ~(c.end > c.start /\ EndAfterEndmdl(file, c.end + 1))
            /\ ~EndAfterEndmdl(file, c.start + 1)

C5_Witness ==
    /\ kind = "pdb"
    /\ \E k \in 1..Len(index) :
          index[k].end > index[k].start /\ EndAfterEndmdl(file, index[k].end)
    /\ \E k \in 1..Len(seqLog) :
          seqLog[k].end > seqLog[k].start /\ EndAfterEndmdl(file, seqLog[k].end)

----------------------------------------------------------------------------
(* Properties of the written frame *)

Written == kind = "write" /\ wst.written_

\* the rows of the last written frame that take a serial, in file order
SerialRows == SelectSeq(wst.block, LAMBDA l : l.rec \in {"ATOM", "HETATM", "TER"})
AtomRows == SelectSeq(wst.block, IsAtomLine)
ConectRows == SelectSeq(wst.block, LAMBDA l : l.rec = "CONECT")

\* the serial printed in the ATOM / HETATM row of atom v
SerialOfAtom(v) == AtomRows[v + 1].serial

\* the place in SerialRows of the row of atom v
RowOfAtom(v) ==
    CHOOSE p \in 1..Len(SerialRows) :
        /\ IsAtomLine(SerialRows[p])
        /\ Cardinality({q \in 1..p : IsAtomLine(SerialRows[q])}) = v + 1

TerBefore(v) == RowOfAtom(v) > 1 /\ SerialRows[RowOfAtom(v) - 1].rec = "TER"

TersBeforeAtom(v) ==
    Cardinality({q \in 1..RowOfAtom(v) : SerialRows[q].rec = "TER"})

\* C6: every serial of a CONECT row is the serial of the atom row of the atom it
\* stands for, v + 1 + the number of TER rows written before that atom
C6_ConectSerials ==
    Written =>
        \A r \in 1..Len(ConectRows) :
            LET c == ConectRows[r]
            IN  /\ c.serial = SerialOfAtom(c.for_atoms[1])
                /\ \A k \in 1..Len(c.conect) :
                      /\ c.conect[k] = SerialOfAtom(c.for_atoms[k + 1])
                      /\ c.conect[k] = c.for_atoms[k + 1] + 1
                                         + TersBeforeAtom(c.for_atoms[k + 1])

IsHetatm(v) == AtomRows[v + 1].rec = "HETATM"
HetBonds(bonds) == {b \in bonds : IsHetatm(b[1]) \/ IsHetatm(b[2])}

\* C7: the frame read back has the atoms of the written frame, names and types
\* in order, and the same bonds among those with a HETATM end
C7_RoundTrip ==
    (kind = "write" /\ step.idx = 0) =>
        /\ ~step.error
        /\ step.frame.atoms = wframe.atoms
        /\ HetBonds(step.frame.bonds) = HetBonds(wframe.bonds)

\* C8: the serials of the ATOM / HETATM and TER rows, in file order, are 1, 2, 3 ...
C8_SerialsConsecutive ==
    Written => \A k \in 1..Len(SerialRows) : SerialRows[k].serial = k

C8_Witness ==
    /\ Written
    /\ Cardinality({k \in 1..Len(SerialRows) : SerialRows[k].rec = "TER"}) >= 2
    /\ IsAtomLine(SerialRows[Len(SerialRows)])

HasResidue(v) == residue_for_atom(wframe, v).some
ResidueOf(v) == residue_for_atom(wframe, v).res

\* every TER row stands directly before an atom row
TersOnlyBetweenAtoms ==
    /\ Len(AtomRows) = Len(wframe.atoms)
    /\ Cardinality({k \in 1..Len(SerialRows) : SerialRows[k].rec = "TER"})
         = Cardinality({v \in 1..(Len(wframe.atoms) - 1) : TerBefore(v)})
    /\ ~TerBefore(0)

\* C9 as claimed: a TER row between two atoms exactly when both have residues with
\* different chainid and the previous composition_type is not "", other, non-polymer
C9_TerAsClaimed ==
    Written =>
        /\ TersOnlyBetweenAtoms
        /\ \A v \in 1..(Len(wframe.atoms) - 1) :
              TerBefore(v) <=>
                 /\ HasResidue(v - 1) /\ HasResidue(v)
                 /\ ResidueOf(v - 1).chainid # ResidueOf(v).chainid
                 /\ ResidueOf(v - 1).comp \notin {"", "other", "non-polymer"}

\* C9 amended: a TER row before atom v exactly when the previous atom has a
\* residue, the chain written for it differs from the chain written for atom v
\* ("X" for an atom without residue) and its composition_type is none of "",
\* other, OTHER, non-polymer, NON-POLYMER
C9_TerRule ==
    Written =>
        /\ TersOnlyBetweenAtoms
        /\ \A v \in 1..(Len(wframe.atoms) - 1) :
              TerBefore(v) <=>
                 /\ HasResidue(v - 1)
                 /\ AtomRows[v].chain # AtomRows[v + 1].chain
                 /\ ResidueOf(v - 1).comp \notin
                        {"", "other", "OTHER", "non-polymer", "NON-POLYMER"}

C9_Witness ==
    /\ Written
    /\ Len(wframe.atoms) = 2
    /\ HasResidue(0) /\ ~HasResidue(1)
    /\ TerBefore(1)

----------------------------------------------------------------------------
(* Properties of a file written frame after frame *)

\* the 1-based places of the ENDMDL lines of a file, in file order
EndmdlPlaces(f) == SortedInts({p \in 1..Len(f) : f[p].rec = "ENDMDL"})

\* the blocks of a file: each runs up to and including an ENDMDL line
FileBlocks(f) ==
    LET e == EndmdlPlaces(f)
    IN  [k \in 1..Len(e) |-> SubSeq(f, IF k = 1 THEN 1 ELSE e[k - 1] + 1, e[k])]

\* the lines after the last ENDMDL line
Trailer(f) ==
    LET e == EndmdlPlaces(f)
    IN  IF e = <<>> THEN f ELSE SubSeq(f, e[Len(e)] + 1, Len(f))

\* the place of a record in a block: MODEL, CRYST1, atom and TER rows, CONECT, ENDMDL
RecRank(l) ==
    CASE l.rec = "MODEL" -> 1
      [] l.rec = "CRYST1" -> 2
      [] l.rec \in {"ATOM", "HETATM", "TER"} -> 3
      [] l.rec = "CONECT" -> 4
      [] l.rec = "ENDMDL" -> 5
      [] OTHER -> 0

\* block b is the k-th block and holds the frame fr
BlockShape(b, k, fr) ==
    LET rows == SelectSeq(b, IsAtomLine)
    IN  /\ Len(b) >= 3
        /\ b[1].rec = "MODEL" /\ b[1].serial = k
        /\ b[2].rec = "CRYST1"
        /\ b[Len(b)].rec = "ENDMDL"
        /\ \A p \in 3..(Len(b) - 1) : RecRank(b[p]) \in {3, 4}
        /\ \A p, q \in 3..(Len(b) - 1) : p < q => RecRank(b[p]) <= RecRank(b[q])
        /\ IsAtomLine(b[3]) \/ RecRank(b[3]) = 5
        /\ Len(rows) = Len(fr.atoms)
        /\ \A i \in 1..Len(rows) : rows[i].name = fr.atoms[i].name
        /\ (\E p \in 1..Len(b) : b[p].rec = "CONECT") <=> fr.bonds # {}

\* C11: after n write_next calls the file is n blocks in call order, the k-th being
\* MODEL k, CRYST1, the atom rows with TER rows, the CONECT rows and ENDMDL; once
\* closed they are followed by one END line if n >= 1 and by nothing if n = 0
C11_Blocks ==
    kind = "writeseq" =>
        LET bl == FileBlocks(file)
            n == Len(wst.log)
        IN  /\ Len(bl) = n
            /\ \A k \in 1..n : BlockShape(bl[k], k, wst.log[k])
            /\ Trailer(file) = IF wst.closed /\ n >= 1 THEN <<Rec("END")>> ELSE <<>>

C11_Witness ==
    /\ kind = "writeseq"
    /\ wst.closed
    /\ Len(wst.log) = MaxModels
    /\ wst.log[1] # wst.log[2]
    /\ \E p \in 1..Len(file) : file[p].rec = "TER"
    /\ \E p \in 1..Len(file) : file[p].rec = "CONECT"

----------------------------------------------------------------------------
(* Properties of the parsing of the records *)

\* the first sequential read_next of a file has been made
FirstRead == kind = "pdb" /\ Len(seqLog) >= 1

\* the residue keys of the atom lines of a file, each once, in the order in which
\* read_ATOM creates the residues (files without TER)
RECURSIVE NewKeys(_, _, _)
NewKeys(f, p, seen) ==
    IF p > Len(f) THEN <<>>
    ELSE LET key == <<f[p].chain, f[p].resid, f[p].icode>>
         IN  IF IsAtomLine(f[p]) /\ key \notin seen
             THEN <<key>> \o NewKeys(f, p + 1, seen \cup {key})
             ELSE NewKeys(f, p + 1, seen)

\* the keys that get the label of the sequence start..end: from the first key equal
\* to start up to and including the key equal to end, none after it
RECURSIVE Labelled(_, _, _, _, _)
Labelled(keys, k, start, end, inside) ==
    IF k > Len(keys) THEN {}
    ELSE LET here == inside \/ keys[k] = start
             stay == here /\ keys[k] # end
         IN  (IF here THEN {keys[k]} ELSE {}) \cup Labelled(keys, k + 1, start, end, stay)

\* the keys of the residues of a frame that carry a secondary-structure label
LabelledIn(frame) ==
    {<<frame.residues[r].chainid, frame.residues[r].id, frame.residues[r].icode>> :
        r \in {q \in 1..Len(frame.residues) : frame.residues[q].sec # ""}}

\* C12: the label of a HELIX sequence goes to the first new residue equal to its
\* start, to every new residue up to and including its end, and to none after it
C12_SecLabels ==
    (FirstRead /\ file \in SecFiles) =>
        LabelledIn(seqLog[1].frame)
            = Labelled(NewKeys(file, 1, {}), 1, file[1].start, file[1].end, FALSE)

\* the 0-based index of the atom named n of residue id in a file of atom lines
AtomNamed(f, id, n) ==
    (CHOOSE p \in 1..Len(f) : f[p].resid = id /\ f[p].name = n) - 1

HasAtomNamed(f, id, n) == \E p \in 1..Len(f) : f[p].resid = id /\ f[p].name = n

\* the bonds of a frame between atoms of two different residues of the file
InterBonds(f, frame) == {b \in frame.bonds : f[b[1] + 1].resid # f[b[2] + 1].resid}

\* the backbone bonds of the claim between residue 1 and the residue after it
BackboneBonds(f) ==
    LET id2 == f[Len(f)].resid
    IN  (IF id2 = 2 /\ HasAtomNamed(f, 1, "C") /\ HasAtomNamed(f, id2, "N")
         THEN {Bond(AtomNamed(f, 1, "C"), AtomNamed(f, id2, "N"))} ELSE {})
        \cup
        (IF id2 = 2 /\ HasAtomNamed(f, 1, "O3'") /\ HasAtomNamed(f, id2, "P")
         THEN {Bond(AtomNamed(f, 1, "O3'"), AtomNamed(f, id2, "P"))} ELSE {})

\* C13: across consecutive standard residues link_standard_residue_bonds adds the
\* bonds (C of k, N of k+1) and (O3' of k, P of k+1), no other bond between
\* residues, and it never dereferences an atom name the residue does not have
C13_BackboneLinks ==
    (FirstRead /\ file \in LinkFiles) =>
        /\ ~seqLog[1].ub
        /\ ~seqLog[1].error
        /\ InterBonds(file, seqLog[1].frame) = BackboneBonds(file)

\* atom_offsets_ as the claim describes it before line p of a frame: the serial of
\* the first atom line minus one (0 if not positive), then serials of the TER
\* lines seen, sorted
OffsetTableAsClaimed(f, p, t) ==
    LET A == {q \in 1..(p - 1) : IsAtomLine(f[q])}
        first == f[CHOOSE q \in A : \A o \in A : q <= o].serial
    IN  /\ t # <<>>
        /\ A # {}
        /\ \A i, j \in 1..Len(t) : i < j => t[i] <= t[j]
        /\ t[1] = IF first <= 0 THEN 0 ELSE first - 1
        /\ \A i \in 2..Len(t) :
              \E q \in 1..(p - 1) : f[q].rec = "TER" /\ f[q].serial = t[i]

\* C14: whenever read_CONECT translates a serial, atom_offsets_ is non-empty and
\* sorted, starts with the first atom serial minus one and goes on with TER
\* serials, for every order of the ATOM, HETATM, TER and CONECT records
C14_OffsetTable ==
    (FirstRead /\ file \in OffsetFiles) =>
        \A k \in 1..Len(seqLog[1].at_conect) :
            OffsetTableAsClaimed(file, seqLog[1].at_conect[k].pos,
                                 seqLog[1].at_conect[k].offsets)

\* the frame made by n ATOM lines of the same residue and nothing else
AtomsOnlyFrame(n) ==
    [atoms |-> [i \in 1..n |-> [name |-> "CA", type |-> "C"]],
     residues |-> IF n = 0 THEN <<>>
                  ELSE <<[name |-> "ALA", id |-> 1, atoms |-> [i \in 1..n |-> i - 1],
                          icode |-> " ", std |-> TRUE, chainid |-> "A", comp |-> "",
                          sec |-> ""]>>,
     bonds |-> {}, positions |-> [i \in 1..n |-> <<0, 0, 0>>], cell |-> <<0, 0, 0>>]

UnknownLinesIn(f, start, end) ==
    {p \in (start + 1)..end : f[p].rec \notin {"", "REMARK", "END", "ATOM"}}

\* C15: every unknown record read by read_next emits one warning, also as the last
\* line; blank and ignored records emit none; the frame is the one the ATOM lines
\* make and read_next does not fail (the only other warning is the missing END)
C15_UnknownWarns ==
    (kind = "pdb" /\ file \in JunkFiles) =>
        \A k \in 1..Len(seqLog) :
            LET c == seqLog[k]
                ended == c.end > c.start /\ file[c.end].rec = "END"
            IN  /\ ~c.error
                /\ c.frame = AtomsOnlyFrame(Cardinality(AtomLinesIn(file, c.start, c.end)))
                /\ c.warnings = Cardinality(UnknownLinesIn(file, c.start, c.end))
                                  + (IF ended THEN 0 ELSE 1)

\* the line of a file of BadFiles that has the malformed field, and the field
BadPlace(f) == CHOOSE p \in 1..Len(f) : f[p].bad # "" \/ (IsAtomLine(f[p]) /\ ~f[p].resok)
BadField(f) == IF f[BadPlace(f)].bad # "" THEN f[BadPlace(f)].bad ELSE "resid"

\* no CONECT serial is translated before the first atom line of the file
TableReady(f) ==
    \A p \in 1..Len(f) :
        (f[p].rec = "CONECT" /\ f[p].bad # "head") => \E q \in 1..(p - 1) : IsAtomLine(f[q])

----------------------------------------------------------------------------
(* Properties of the encoding of serials and residue ids *)

\* the number of fields encoded by to_pdb_index that a block shows as asterisks
StarFields(b) ==
    LET Star(x) == IF x = Asterisks THEN 1 ELSE 0
        InLine(l) ==
            IF IsAtomLine(l) THEN Star(l.serial) + Star(l.resid)
            ELSE IF l.rec = "TER" THEN Star(l.serial)
            ELSE IF l.rec = "CONECT"
            THEN Star(l.serial) + Cardinality({k \in 1..Len(l.conect) : l.conect[k] = Asterisks})
            ELSE 0
        sum[p \in 0..Len(b)] == IF p = 0 THEN 0 ELSE sum[p - 1] + InLine(b[p])
    IN  sum[Len(b)]

\* C17: the writer emits one warning for every serial or residue id it encodes as
\* asterisks, not only for the smallest such value
C17_OverflowWarned ==
    (Written /\ wframe \in BigFrames) => wst.warnings = StarFields(wst.block)

----------------------------------------------------------------------------
(* Properties of Topology *)

NoRepeat(q) == \A a, b \in 1..Len(q) : q[a] = q[b] => a = b
Elements(q) == {q[p] : p \in 1..Len(q)}

\* the angles the bonds added so far close: two added bonds that share the atom j
\* and whose other atoms i and k differ
ClosedAngles ==
    {Angle(i, j, k) : <<i, j, k>> \in
        {x \in (0..MaxTopAtoms) \X (0..MaxTopAtoms) \X (0..MaxTopAtoms) :
            /\ x[1] # x[3]
            /\ \E c \in topology.calls : {c[1], c[2]} = {x[1], x[2]}
            /\ \E c \in topology.calls : {c[1], c[2]} = {x[2], x[3]}}}

\* C18: after any add_atom and add_bond calls, bonds() returns every added bond once,
\* the smaller index first, and angles() returns exactly once each triple
\* (min(i,k), j, max(i,k)) of two bonds i-j and j-k with i # k, and nothing else
C18_BondAngleClosure ==
    /\ (kind = "topology" /\ topology.op = "bonds") =>
            /\ NoRepeat(topology.result)
            /\ \A b \in Elements(topology.result) : b[1] < b[2]
            /\ \A c \in topology.calls :
                    \E b \in Elements(topology.result) : {b[1], b[2]} = {c[1], c[2]}
            /\ \A b \in Elements(topology.result) :
                    \E c \in topology.calls : {b[1], b[2]} = {c[1], c[2]}
    /\ (kind = "topology" /\ topology.op = "angles") =>
            /\ NoRepeat(topology.result)
            /\ Elements(topology.result) = ClosedAngles

\* the documented example, with a memo that was computed before the second bond
C18_Witness ==
    /\ kind = "topology"
    /\ topology.atoms = <<"H", "O", "H">>
    /\ topology.calls = {<<0, 1>>, <<1, 2>>}
    /\ topology.op = "angles"
    /\ topology.result = <<<<0, 1, 2>>>>

----------------------------------------------------------------------------
(* Properties of closing a trajectory *)

\* C19: closing a trajectory opened for writing flushes the format (END after a
\* written frame) and then the file, releases the resources exactly once, and
\* returns a status other than success exactly when the flush failed
C19_CloseReportsFlush ==
    (kind = "capi" /\ ~traj.open) =>
        /\ traj.events = <<"format", "file">>
        /\ wst.written_ => (Len(file) > 0 /\ file[Len(file)].rec = "END")
        /\ traj.released = 1
        /\ traj.flush_failed <=> traj.status # "CHFL_SUCCESS"

----------------------------------------------------------------------------
(* Properties of the POSCAR codec *)

IsPoscar == kind \in {"poscar_read", "poscar_write"}

\* C20: on one POSCARFormat a read_next after a successful read_next fails, a
\* write_next after a successful write_next fails, and a failing call leaves the
\* frame and the file position as they were
C20_OneFrameOnly ==
    /\ (IsPoscar /\ step.op \in {"read_next", "write_next"} /\ step.prior >= 1) =>
            step.error
    /\ (IsPoscar /\ step.op \in {"read_next", "write_next"} /\ step.error) =>
            (step.frame = step.given /\ step.pos1 = step.pos0)

----------------------------------------------------------------------------
(* Properties of the atoms, positions and residues of a frame read *)

\* the frames returned by the read_next calls made so far
FramesRead ==
    {seqLog[k].frame : k \in {j \in 1..Len(seqLog) : ~seqLog[j].error}}
    \cup (IF step.count > 0 /\ ~step.error THEN {step.frame} ELSE {})

\* the residues of a frame that hold the atom a
ResiduesOf(frame, a) ==
    {r \in 1..Len(frame.residues) :
        \E p \in 1..Len(frame.residues[r].atoms) : frame.residues[r].atoms[p] = a}

\* the atom lines of the file are the atoms of its frame, in order: two atom lines
\* with a TER line between them
SplitByTer(f, p, q) ==
    /\ p < q
    /\ IsAtomLine(f[p]) /\ IsAtomLine(f[q])
    /\ \E t \in (p + 1)..(q - 1) : f[t].rec = "TER"

\* C21: after read_next returns, the frame has one position per atom, every atom
\* index of a residue is below the atom count, no atom is in two residues, and
\* atoms read before and after a TER are never in the same residue
C21_ResiduesDisjoint ==
    (kind = "pdb" /\ file \in ResFiles) =>
        \A fr \in FramesRead :
            /\ Len(fr.positions) = Len(fr.atoms)
            /\ \A r \in 1..Len(fr.residues) : \A p \in 1..Len(fr.residues[r].atoms) :
                    /\ fr.residues[r].atoms[p] \in 0..(Len(fr.atoms) - 1)
                    /\ \A q \in 1..Len(fr.residues[r].atoms) :
                            fr.residues[r].atoms[q] = fr.residues[r].atoms[p] => q = p
            /\ \A a \in 0..(Len(fr.atoms) - 1) : Cardinality(ResiduesOf(fr, a)) <= 1
            /\ \A p, q \in 1..Len(file) :
                    SplitByTer(file, p, q) =>
                        ResiduesOf(fr, Cardinality(AtomLinesIn(file, 0, p)) - 1)
                        \cap ResiduesOf(fr, Cardinality(AtomLinesIn(file, 0, q)) - 1) = {}

\* a frame with two residues A 1: one read before a TER, the other after it
C21_Witness ==
    /\ kind = "pdb" /\ file \in ResFiles
    /\ Len(seqLog) = 1 /\ ~seqLog[1].error
    /\ \E r1, r2 \in 1..Len(seqLog[1].frame.residues) :
            /\ r1 # r2
            /\ seqLog[1].frame.residues[r1].chainid = "A"
            /\ seqLog[1].frame.residues[r2].chainid = "A"
            /\ seqLog[1].frame.residues[r1].id = seqLog[1].frame.residues[r2].id
    /\ Len(seqLog[1].frame.atoms) = 3

----------------------------------------------------------------------------
(* Properties of the fixed-point columns written *)

RECURSIVE Digits(_)
Digits(n) == IF n < 10 THEN 1 ELSE 1 + Digits(n \div 10)

\* the number of characters of v printed with 3 decimals: sign, digits, separator
FixedWidth(v) == (IF v < 0 THEN 1 ELSE 0) + Digits(IF v < 0 THEN -v ELSE v) + 4

\* a write_next call was made on one of the frames with values at the limits
ValueWritten == kind = "writeseq" /\ wframe \in ValueFrames /\ Len(wst.log) > 0

\* the values of the frame all fit their columns
FrameFits(frame) ==
    /\ \A k \in 1..3 : FixedWidth(frame.cell[k]) <= 9
    /\ \A i \in 1..Len(frame.positions) : \A k \in 1..3 :
            FixedWidth(frame.positions[i][k]) <= 8

\* C22: when write_next succeeds every cell length printed fits the 9 columns of
\* CRYST1 and every coordinate printed the 8 columns of ATOM, and write_next fails
\* on a frame with a value wider than its column
C22_ValuesFit ==
    ValueWritten =>
        /\ ~wst.failed =>
                \A p \in 1..Len(wst.block) :
                    /\ wst.block[p].rec = "CRYST1" =>
                            \A k \in 1..3 : FixedWidth(wst.block[p].cell[k]) <= 9
                    /\ IsAtomLine(wst.block[p]) =>
                            \A k \in 1..3 : FixedWidth(wst.block[p].xyz[k]) <= 8
        /\ ~FrameFits(wframe) => wst.failed

\* the MODEL line at p is closed: an ENDMDL follows it with no MODEL or END between
ModelClosed(f, p) ==
    \E q \in (p + 1)..Len(f) :
        /\ f[q].rec = "ENDMDL"
        /\ \A t \in (p + 1)..(q - 1) : f[t].rec \notin {"MODEL", "END"}

\* C26: a write_next that fails because of a cell length or a coordinate prints
\* nothing of its frame and leaves the model counter and the written flag as they
\* were: every MODEL line of the file is closed by an ENDMDL, and closing prints
\* END only if a frame was written completely
C26_FailedWriteLeavesNothing ==
    (kind = "writeseq" /\ wframe \in ValueFrames) =>
        /\ wst.failed => wst.block = <<>>
        /\ \A p \in 1..Len(file) : file[p].rec = "MODEL" => ModelClosed(file, p)
        /\ wst.models_ = Cardinality({p \in 1..Len(file) : file[p].rec = "ENDMDL"})
        /\ wst.written_ <=> wst.models_ > 0
        /\ wst.closed =>
                ((\E p \in 1..Len(file) : file[p].rec = "END") <=> wst.models_ > 0)

----------------------------------------------------------------------------
(* Properties of the CONECT rows written *)

\* the atom is written as an ATOM row: it is in a standard residue
IsStandardAtom(frame, i) ==
    \E r \in 1..Len(frame.residues) :
        /\ frame.residues[r].std
        /\ \E p \in 1..Len(frame.residues[r].atoms) : frame.residues[r].atoms[p] = i

\* the atoms bonded to atom i by a bond that goes to the CONECT rows
EmittedPartners(frame, i) ==
    {j \in 0..(Len(frame.atoms) - 1) :
        /\ (<<i, j>> \in frame.bonds \/ <<j, i>> \in frame.bonds)
        /\ ~(IsStandardAtom(frame, i) /\ IsStandardAtom(frame, j))}

\* the places in the block of the CONECT rows of atom i (no TER row: serial i + 1)
ConectRowsOf(b, i) == {p \in 1..Len(b) : b[p].rec = "CONECT" /\ b[p].serial = i + 1}

\* C23: every CONECT row written has one to four partners, and an atom with n > 0
\* emitted bonds has ceil(n/4) rows that list each partner exactly once
C23_ConectRows ==
    (Written /\ wframe \in StarFrames) =>
        /\ \A p \in 1..Len(wst.block) :
                wst.block[p].rec = "CONECT" => Len(wst.block[p].conect) \in 1..4
        /\ \A i \in 0..(Len(wframe.atoms) - 1) :
                LET n == Cardinality(EmittedPartners(wframe, i))
                    rows == ConectRowsOf(wst.block, i)
                IN  /\ Cardinality(rows) = (n + 3) \div 4
                    /\ \A j \in EmittedPartners(wframe, i) :
                            Cardinality({<<p, k>> \in rows \X (1..4) :
                                /\ k <= Len(wst.block[p].conect)
                                /\ wst.block[p].conect[k] = j + 1}) = 1
                    /\ \A p \in rows : \A k \in 1..Len(wst.block[p].conect) :
                            wst.block[p].conect[k] - 1 \in EmittedPartners(wframe, i)

----------------------------------------------------------------------------
(* Properties of the bonds read from CONECT records *)

\* the serial of the first atom line of the file
FirstSerial(f) == f[CHOOSE p \in 1..Len(f) : IsAtomLine(f[p]) /\ AtomLinesIn(f, 0, p - 1) = {}].serial

\* the serial is the serial of an atom read before line p
SerialKnown(f, p, serial) ==
    serial \in FirstSerial(f)..(FirstSerial(f) + Cardinality(AtomLinesIn(f, 0, p)) - 1)

\* the (head, partner) pairs of the CONECT lines, each with the place of its line
ConectPairs(f) ==
    {<<p, k>> \in (1..Len(f)) \X (1..4) : f[p].rec = "CONECT" /\ k <= Len(f[p].conect)}

PairKnown(f, pk) ==
    SerialKnown(f, pk[1], f[pk[1]].serial) /\ SerialKnown(f, pk[1], f[pk[1]].conect[pk[2]])

\* C24: read_CONECT adds no bond with an endpoint outside the frame; a pair with a
\* serial that is not the serial of an atom of the frame (above the last atom,
\* or below the first atom's serial) gives a warning and no bond, the other pairs
\* of the row are added, and read_next does not fail
C24_ConectInRange ==
    (kind = "pdb" /\ file \in ConectFiles /\ Len(seqLog) >= 1) =>
        LET c == seqLog[1]
            known == {pk \in ConectPairs(file) : PairKnown(file, pk)}
        IN  /\ ~c.error
            /\ \A b \in c.frame.bonds :
                    b[1] \in 0..(Len(c.frame.atoms) - 1) /\ b[2] \in 0..(Len(c.frame.atoms) - 1)
            /\ c.frame.bonds =
                    {Bond(file[pk[1]].serial - FirstSerial(file),
                          file[pk[1]].conect[pk[2]] - FirstSerial(file)) : pk \in known}
            /\ c.warnings = Cardinality(ConectPairs(file) \ known)

----------------------------------------------------------------------------
(* Properties of the reader state kept from one frame to the next *)

\* the residue keys that start a declared sequence
DeclaredStarts(f) == {f[p].start : p \in {q \in 1..Len(f) : f[q].rec \in {"HELIX", "SHEET", "TURN"}}}

\* the residue keys of the atom lines of the frame read by the k-th call
KeysRead(f, k) ==
    {<<f[p].chain, f[p].resid, f[p].icode>> : p \in AtomLinesIn(f, seqLog[k].start, seqLog[k].end)}

\* C25: between two read_next calls the reader is inside no secondary-structure
\* sequence, and a frame in which no declared sequence starts has no labelled
\* residue, whatever sequence the frame before left open
C25_NoLeak ==
    (kind = "pdb" /\ file \in LeakFiles) =>
        /\ ~seq.current_secinfo_.some
        /\ \A k \in 2..Len(seqLog) :
                KeysRead(file, k) \cap DeclaredStarts(file) = {} =>
                    \A r \in 1..Len(seqLog[k].frame.residues) :
                        seqLog[k].frame.residues[r].sec = ""

====
